---- MODULE Spec2Model ----
(***************************************************************************)
(* Model of the minotaur analysis pipeline: the AnalysisEngine run         *)
(* (checkout -> extraction -> usage -> matching -> triage -> aggregation), *)
(* the RepositoryService checkout lifecycle and the TriageService          *)
(* adjudicator with its rule-based fallback.                               *)
(*                                                                         *)
(* Conventions: Python None is the string NoneValue; a float in [0,1] is   *)
(* an integer number of hundredths (0.5 is 50); free text is a sequence of *)
(* string tokens; a call's outcome is a record with the exception it       *)
(* raised ("none" when it returned) and the value it returned.             *)
(***************************************************************************)
EXTENDS Integers, Sequences, FiniteSets, TLC

VARIABLES
    \* ---- one AnalysisEngine.analyze_repository run ----
    request,                \* the AnalysisRequest of the run
    checkout,               \* content of the cloned tree (its file extensions)
    pc,                     \* position of the run inside analyze_repository
    temp_dir,               \* RepositoryService.temp_dir
    fs,                     \* temporary directories that exist on disk
    dependencies,           \* local `dependencies`
    dep_i,                  \* position of the usage loop (Step 3)
    dependency_usage,       \* local `dependency_usage` (name -> bool)
    all_vulnerabilities,    \* local `all_vulnerabilities`: (advisory, dependency) pairs
    vulnerability_reports,  \* local `vulnerability_reports`
    errors,                 \* local `errors`
    response,               \* <<>> until the run returns, then <<AnalysisResponse>>
    hist,                   \* observation record of the run (calls made, exit path)
    \* ---- a direct exercise of TriageService ----
    tq,                     \* the (advisory, dependency, usage) input
    t_out,                  \* outcomes of triage_vulnerability on tq
    f_out,                  \* outcomes of successive _fallback_triage calls on tq
    \* ---- a direct exercise of DependencyService.extract_dependencies ----
    x_in,                   \* the repository tree and the configured max_dependencies
    x_out,                  \* outcomes of extract_dependencies on x_in
    \* ---- a direct exercise of AnalysisEngine._analyze_vulnerabilities ----
    m_in,                   \* the dependency list and the database content
    m_out,                  \* outcomes of _analyze_vulnerabilities on m_in
    \* ---- a direct exercise of DependencyService.is_dependency_used ----
    u_in,                   \* the dependency and the files of the tree
    u_out,                  \* outcomes of is_dependency_used on u_in
    \* ---- two runs sharing one AnalysisEngine (with temp_dir and fs) ----
    runs                    \* run id -> position and checkout of that run

vars == <<request, checkout, pc, temp_dir, fs, dependencies, dep_i, dependency_usage,
          all_vulnerabilities, vulnerability_reports, errors, response, hist,
          tq, t_out, f_out, x_in, x_out, m_in, m_out, u_in, u_out, runs>>

engineVars == <<request, checkout, pc, temp_dir, fs, dependencies, dep_i, dependency_usage,
                all_vulnerabilities, vulnerability_reports, errors, response, hist>>

triageVars == <<tq, t_out, f_out>>

extractVars == <<x_in, x_out>>

matchVars == <<m_in, m_out>>

----------------------------------------------------------------------------
(* Bounds *)

MaxDeps == 2            \* longest dependency list an extraction returns

MaxCalls == 2           \* how many times _fallback_triage is called on one input

----------------------------------------------------------------------------
(* Data model *)

NoneValue == "<None>"

\* ThreatLevel enum, lowest tier first
ThreatLevel == {"info", "low", "medium", "high", "critical"}

TierRank(level) ==
    CASE level = "info" -> 0
      [] level = "low" -> 1
      [] level = "medium" -> 2
      [] level = "high" -> 3
      [] level = "critical" -> 4

\* Dependency.metadata: the keys the extraction writes ("source", "type", and
\* "integrity"/"resolved" together, which `locked` stands for)
Metadata(source, type, locked) == [source |-> source, type |-> type, locked |-> locked]

\* Dependency records the runs work on
Dependency(name, version, dependency_type, is_direct, parent, metadata) ==
    [name |-> name, version |-> version, dependency_type |-> dependency_type,
     is_direct |-> is_direct, parent |-> parent, metadata |-> metadata]

DepUniverse ==
    { Dependency("a", "1.0.0", "npm", TRUE, NoneValue,
                 Metadata("package.json", NoneValue, TRUE)),
      Dependency("a", "2.0.0", "python", TRUE, NoneValue,
                 Metadata("requirements.txt", NoneValue, FALSE)),
      Dependency("b", "1.0.0", "npm", FALSE, "a",
                 Metadata(NoneValue, NoneValue, TRUE)),
      Dependency("b", "^1.0", "python", TRUE, NoneValue,
                 Metadata("pyproject.toml", "dependencies", FALSE)) }

\* raw severity strings an advisory may carry (None = absent)
VulnSeverities ==
    {NoneValue, "", "CRITICAL", "critical", "HIGH", "High", "MEDIUM", "medium",
     "LOW", "low", "MODERATE"}

\* str.lower() on the severity strings above
Lower(s) ==
    CASE s \in {"CRITICAL", "critical"} -> "critical"
      [] s \in {"HIGH", "High", "high"} -> "high"
      [] s \in {"MEDIUM", "medium"} -> "medium"
      [] s \in {"LOW", "low"} -> "low"
      [] s = "MODERATE" -> "moderate"
      [] OTHER -> s

Vulnerability(id, severity, affected_packages) ==
    [id |-> id, severity |-> severity, affected_packages |-> affected_packages]

----------------------------------------------------------------------------
(* TriageResult and call outcomes *)

TriageResultRec(is_real_threat, threat_level, impact_summary, recommendation, confidence, reasoning) ==
    [is_real_threat |-> is_real_threat, threat_level |-> threat_level,
     impact_summary |-> impact_summary, recommendation |-> recommendation,
     confidence |-> confidence, reasoning |-> reasoning]

NoTriageResult == TriageResultRec(FALSE, "", <<>>, <<>>, 0, <<>>)

Returned(path, val) == [exc |-> "none", path |-> path, val |-> val]

Raised(path, exc) == [exc |-> exc, path |-> path, val |-> NoTriageResult]

\* pydantic validation of the TriageResult fields: is_real_threat must be a
\* boolean, confidence must satisfy ge=0.0, le=1.0
TriageResult(path, is_real_threat, threat_level, impact_summary, recommendation, confidence, reasoning) ==
    IF is_real_threat \notin {"true", "false"} \/ confidence < 0 \/ confidence > 100
    THEN Raised(path, "ValidationError")
    ELSE Returned(path, TriageResultRec(is_real_threat = "true", threat_level,
                                        impact_summary, recommendation,
                                        confidence, reasoning))

----------------------------------------------------------------------------
(* TriageService._fallback_triage *)

FallbackConfidence == 50

FallbackReasoning == <<"Fallback analysis used due to LLM processing error">>

BoolStr(b) == IF b THEN "true" ELSE "false"

\* `vulnerability.severity or "unknown"`: None and the empty string are falsy
SeverityOrUnknown_NoDefault(severity) == severity

SeverityOrUnknown(severity) ==
    IF severity = NoneValue \/ severity = "" THEN "unknown" ELSE severity

\* severity.lower(): an attribute error on None
LowerCall(severity) ==
    IF severity = NoneValue THEN [exc |-> "AttributeError", s |-> ""]
    ELSE [exc |-> "none", s |-> Lower(severity)]

\* `is_dependency_used and dependency.is_direct`
FallbackIsRealThreat_Or(dependency, is_dependency_used) ==
    is_dependency_used \/ dependency.is_direct

FallbackIsRealThreat(dependency, is_dependency_used) ==
    is_dependency_used /\ dependency.is_direct

\* the if/elif/else on the lower-cased severity
FallbackThreatLevel_MediumRaised(lowered, is_real_threat) ==
    IF lowered \in {"critical", "high"}
    THEN (IF is_real_threat THEN "high" ELSE "medium")
    ELSE IF lowered = "medium"
    THEN (IF is_real_threat THEN "high" ELSE "low")
    ELSE "low"

FallbackThreatLevel_LowToInfo(lowered, is_real_threat) ==
    IF lowered \in {"critical", "high"}
    THEN (IF is_real_threat THEN "high" ELSE "medium")
    ELSE IF lowered = "medium"
    THEN (IF is_real_threat THEN "medium" ELSE "low")
    ELSE (IF is_real_threat THEN "low" ELSE "info")

FallbackThreatLevel(lowered, is_real_threat) ==
    IF lowered \in {"critical", "high"}
    THEN (IF is_real_threat THEN "high" ELSE "medium")
    ELSE IF lowered = "medium"
    THEN (IF is_real_threat THEN "medium" ELSE "low")
    ELSE "low"

\* the TriageResult the fallback builds
FallbackResult_ConfidenceByThreat(dependency, is_real_threat, threat_level) ==
    TriageResult("fallback", BoolStr(is_real_threat), threat_level,
                 <<"Vulnerability in", dependency.name, dependency.version>>,
                 IF is_real_threat
                 THEN <<"Update", dependency.name, "to a patched version">>
                 ELSE <<"Monitor for updates but no immediate action required">>,
                 IF is_real_threat THEN 80 ELSE FallbackConfidence,
                 FallbackReasoning)

FallbackResult(dependency, is_real_threat, threat_level) ==
    TriageResult("fallback", BoolStr(is_real_threat), threat_level,
                 <<"Vulnerability in", dependency.name, dependency.version>>,
                 IF is_real_threat
                 THEN <<"Update", dependency.name, "to a patched version">>
                 ELSE <<"Monitor for updates but no immediate action required">>,
                 FallbackConfidence,
                 FallbackReasoning)

_fallback_triage(vulnerability, dependency, is_dependency_used) ==
    LET is_real_threat == FallbackIsRealThreat(dependency, is_dependency_used)
        severity == SeverityOrUnknown(vulnerability.severity)
        lowered == LowerCall(severity)
    IN  IF lowered.exc # "none" THEN Raised("fallback", lowered.exc)
        ELSE FallbackResult(dependency, is_real_threat,
                            FallbackThreatLevel(lowered.s, is_real_threat))

----------------------------------------------------------------------------
(* The completion text and its JSON content *)

AllKeys == {"is_real_threat", "threat_level", "impact_summary", "recommendation",
            "confidence", "reasoning"}

Payload(id, keys, is_real_threat, threat_level, confidence) ==
    [keys |-> keys, is_real_threat |-> is_real_threat,
     threat_level |-> threat_level, confidence |-> confidence,
     impact_summary |-> <<"impact", id>>, recommendation |-> <<"recommendation", id>>,
     reasoning |-> <<"reasoning", id>>]

\* the key/value content an object of the completion text may carry
PayloadIds ==
    {"P_crit", "P_high", "P_med", "P_low", "P_info", "P_nolevel", "P_noreason",
     "P_badlevel", "P_upper", "P_overconf", "P_negconf", "P_badbool"}

PayloadOf(id) ==
    CASE id = "P_crit" -> Payload(id, AllKeys, "true", "critical", 90)
      [] id = "P_high" -> Payload(id, AllKeys, "true", "high", 100)
      [] id = "P_med" -> Payload(id, AllKeys, "false", "medium", 70)
      [] id = "P_low" -> Payload(id, AllKeys, "false", "low", 0)
      [] id = "P_info" -> Payload(id, AllKeys, "false", "info", 100)
      [] id = "P_nolevel" -> Payload(id, AllKeys \ {"threat_level"}, "true", "", 80)
      [] id = "P_noreason" -> Payload(id, AllKeys \ {"reasoning"}, "true", "high", 80)
      [] id = "P_badlevel" -> Payload(id, AllKeys, "true", "severe", 80)
      [] id = "P_upper" -> Payload(id, AllKeys, "true", "HIGH", 80)
      [] id = "P_overconf" -> Payload(id, AllKeys, "true", "high", 150)
      [] id = "P_negconf" -> Payload(id, AllKeys, "false", "low", -10)
      [] id = "P_badbool" -> Payload(id, AllKeys, "maybe", "low", 50)
      [] OTHER -> Payload(id, {}, "", "", 0)

\* str.strip(): drop the whitespace tokens at both ends
RECURSIVE LStrip(_)
LStrip(s) == IF s # <<>> /\ Head(s) = " " THEN LStrip(Tail(s)) ELSE s

RECURSIVE RStrip(_)
RStrip(s) ==
    IF s # <<>> /\ s[Len(s)] = " " THEN RStrip(SubSeq(s, 1, Len(s) - 1)) ELSE s

Strip(s) == RStrip(LStrip(s))

\* str.find / str.rfind: 0-based position of the first / last c, -1 if absent
Find(s, c) ==
    IF \E i \in 1..Len(s) : s[i] = c
    THEN (CHOOSE i \in 1..Len(s) : s[i] = c /\ \A j \in 1..(i - 1) : s[j] # c) - 1
    ELSE -1

RFind(s, c) ==
    IF \E i \in 1..Len(s) : s[i] = c
    THEN (CHOOSE i \in 1..Len(s) : s[i] = c /\ \A j \in (i + 1)..Len(s) : s[j] # c) - 1
    ELSE -1

\* s[a:b] with 0 <= a, b <= len(s)
Slice(s, a, b) == SubSeq(s, a + 1, b)

\* json.loads succeeds on "{}" , "{ P }" and "{ P <object> }" (P's keys plus
\* one more key holding a nested object); anything else is a JSONDecodeError
RECURSIVE IsJsonObject(_)
IsJsonObject(s) ==
    /\ Len(s) >= 2
    /\ s[1] = "{"
    /\ s[Len(s)] = "}"
    /\ \/ Len(s) = 2
       \/ /\ s[2] \in PayloadIds
          /\ \/ Len(s) = 3
             \/ IsJsonObject(SubSeq(s, 3, Len(s) - 1))

JsonLoads(s) ==
    IF IsJsonObject(s)
    THEN [exc |-> "none", data |-> IF Len(s) = 2 THEN PayloadOf("") ELSE PayloadOf(s[2])]
    ELSE [exc |-> "JSONDecodeError", data |-> PayloadOf("")]

\* ThreatLevel(value): enum lookup by value
ThreatLevelOf(value) ==
    IF value \in ThreatLevel THEN [exc |-> "none", level |-> value]
    ELSE [exc |-> "ValueError", level |-> ""]

----------------------------------------------------------------------------
(* TriageService.triage_vulnerability *)

\* what the completion service does with one request
LlmRaise == [kind |-> "raise", text |-> <<>>]

LlmNoGenerations == [kind |-> "no_generations", text |-> <<>>]

LlmText(text) == [kind |-> "text", text |-> text]

\* self.llm.agenerate([prompt]) followed by response.generations[0][0].text.strip()
LlmResponseText(llm) ==
    CASE llm.kind = "raise" -> [exc |-> "Exception", text |-> <<>>]
      [] llm.kind = "no_generations" -> [exc |-> "IndexError", text |-> <<>>]
      [] OTHER -> [exc |-> "none", text |-> Strip(llm.text)]

\* the exception classes the two handlers of triage_vulnerability catch
InnerCaught == {"JSONDecodeError", "KeyError", "ValueError", "ValidationError"}

OuterCaught == {"JSONDecodeError", "KeyError", "ValueError", "ValidationError",
                "IndexError", "Exception"}

\* TriageResult(is_real_threat=triage_data["is_real_threat"], ...): the
\* subscripts raise KeyError, ThreatLevel(...) raises ValueError, the
\* constructor validates
TriageResultFromData(triage_data) ==
    IF "is_real_threat" \notin triage_data.keys \/ "threat_level" \notin triage_data.keys
    THEN Raised("primary", "KeyError")
    ELSE IF ThreatLevelOf(triage_data.threat_level).exc # "none"
    THEN Raised("primary", ThreatLevelOf(triage_data.threat_level).exc)
    ELSE IF ~(AllKeys \subseteq triage_data.keys)
    THEN Raised("primary", "KeyError")
    ELSE TriageResult("primary", triage_data.is_real_threat,
                      ThreatLevelOf(triage_data.threat_level).level,
                      triage_data.impact_summary, triage_data.recommendation,
                      triage_data.confidence, triage_data.reasoning)

\* the body of the inner try: locate the JSON text and build the result
ParseResponse(response_text) ==
    LET json_start == Find(response_text, "{")
        json_end == RFind(response_text, "}") + 1
    IN  IF json_start >= 0 /\ json_end > json_start
        THEN LET loaded == JsonLoads(Slice(response_text, json_start, json_end))
             IN  IF loaded.exc # "none" THEN Raised("primary", loaded.exc)
                 ELSE TriageResultFromData(loaded.data)
        ELSE Raised("primary", "ValueError")

\* the same without the outer `except Exception`
triage_vulnerability_NoOuterHandler(vulnerability, dependency, repo_context, is_dependency_used, llm) ==
    LET llm_response == LlmResponseText(llm)
        parsed == ParseResponse(llm_response.text)
    IN  IF llm_response.exc # "none" THEN Raised("primary", llm_response.exc)
        ELSE IF parsed.exc = "none" THEN parsed
        ELSE IF parsed.exc \in InnerCaught
        THEN _fallback_triage(vulnerability, dependency, is_dependency_used)
        ELSE parsed

triage_vulnerability(vulnerability, dependency, repo_context, is_dependency_used, llm) ==
    LET llm_response == LlmResponseText(llm)
        parsed == ParseResponse(llm_response.text)
    IN  IF llm_response.exc # "none"
        THEN (IF llm_response.exc \in OuterCaught
              THEN _fallback_triage(vulnerability, dependency, is_dependency_used)
              ELSE Raised("primary", llm_response.exc))
        ELSE IF parsed.exc = "none" THEN parsed
        ELSE IF parsed.exc \in InnerCaught \/ parsed.exc \in OuterCaught
        THEN _fallback_triage(vulnerability, dependency, is_dependency_used)
        ELSE parsed

----------------------------------------------------------------------------
(* Inputs of the triage exercise *)

TextPrefixes == { <<>>, <<" ", "t">> }

TextBodies ==
    { <<>>, <<"t">>, <<"{">>, <<"}", "{">>, <<"{", "}">> }
    \cup { <<"{", p, "}">> : p \in PayloadIds }
    \cup { <<"{", p, "{", "P_low", "}", "}">> : p \in {"P_crit", "P_nolevel"} }

TextSuffixes == { <<>>, <<"t", " ">>, <<"t", "{", "}">>, <<"}">> }

CompletionTexts ==
    { pre \o body \o post : pre \in TextPrefixes, body \in TextBodies, post \in TextSuffixes }

LlmBehaviours == {LlmRaise, LlmNoGenerations} \cup { LlmText(t) : t \in CompletionTexts }

TriageVulns == { Vulnerability("ADV-0", sev, <<>>) : sev \in VulnSeverities }

TriageInputs ==
    [vulnerability : TriageVulns, dependency : DepUniverse, is_dependency_used : BOOLEAN]

IdleTriage ==
    /\ tq = [vulnerability |-> Vulnerability("ADV-0", NoneValue, <<>>),
             dependency |-> Dependency("a", "1.0.0", "npm", TRUE, NoneValue,
                                       Metadata("package.json", NoneValue, TRUE)),
             is_dependency_used |-> FALSE]
    /\ t_out = <<>>
    /\ f_out = <<>>

NoHist ==
    [acquired |-> FALSE, checkout_dir |-> NoneValue, cleanups |-> 0,
     usage_calls |-> <<>>, usage_results |-> <<>>, vuln_queries |-> 0, triage_calls |-> 0,
     extracted |-> FALSE, exit_path |-> "none", failed_at |-> "none"]

IdleEngine ==
    /\ request = [repo_url |-> [scheme |-> "https", netloc |-> "github.com", parts |-> 2],
                  include_transitive |-> TRUE]
    /\ checkout = [exts |-> {}]
    /\ pc = "idle"
    /\ temp_dir = NoneValue
    /\ fs = {}
    /\ dependencies = <<>>
    /\ dep_i = 0
    /\ dependency_usage = [n \in {} |-> FALSE]
    /\ all_vulnerabilities = <<>>
    /\ vulnerability_reports = <<>>
    /\ errors = <<>>
    /\ response = <<>>
    /\ hist = NoHist

IdleExtract == x_in = <<>> /\ x_out = <<>>

IdleMatch == m_in = <<>> /\ m_out = <<>>

IdleRuns == runs = <<>>

IdleUsage == u_in = <<>> /\ u_out = <<>>

InitTriage ==
    /\ IdleEngine
    /\ IdleExtract
    /\ IdleMatch
    /\ IdleRuns
    /\ IdleUsage
    /\ tq \in TriageInputs
    /\ t_out = <<>>
    /\ f_out = <<>>

\* one call of triage_vulnerability on the input, against one behaviour of
\* the completion service
TriageVulnerability ==
    /\ t_out = <<>>
    /\ \E llm \in LlmBehaviours :
         t_out' = <<[llm |-> llm,
                     out |-> triage_vulnerability(tq.vulnerability, tq.dependency,
                                                  <<"context">>, tq.is_dependency_used,
                                                  llm)]>>
    /\ UNCHANGED <<tq, f_out>>
    /\ UNCHANGED <<engineVars, extractVars, matchVars, u_in, u_out, runs>>

\* one direct call of _fallback_triage on the input
FallbackTriage ==
    /\ Len(f_out) < MaxCalls
    /\ f_out' = Append(f_out, _fallback_triage(tq.vulnerability, tq.dependency,
                                              tq.is_dependency_used))
    /\ UNCHANGED <<tq, t_out>>
    /\ UNCHANGED <<engineVars, extractVars, matchVars, u_in, u_out, runs>>

NextTriage == TriageVulnerability \/ FallbackTriage

SpecTriage == InitTriage /\ [][NextTriage]_vars

\* every outcome of the exercise that came out of the fallback path
FallbackOutcomes ==
    { f_out[i] : i \in 1..Len(f_out) }
    \cup { t_out[i].out : i \in { j \in 1..Len(t_out) : t_out[j].out.path = "fallback" } }

----------------------------------------------------------------------------
(* Properties of the adjudicator *)

\* the tier a raw severity string names, whatever its letter case
RawTier(severity) ==
    CASE severity \in {"CRITICAL", "critical"} -> "critical"
      [] severity \in {"HIGH", "High"} -> "high"
      [] severity \in {"MEDIUM", "medium"} -> "medium"
      [] severity \in {"LOW", "low"} -> "low"
      [] OTHER -> "other"

FourTiers == {"critical", "high", "medium", "low"}

\* C5: triage_vulnerability never raises; whatever the completion service
\* does, it returns a TriageResult whose threat_level is one of the five tiers
\* and whose confidence lies in [0,1], from the primary path or the fallback.
C5_TriageNeverRaises ==
    \A i \in 1..Len(t_out) :
        /\ t_out[i].out.exc = "none"
        /\ t_out[i].out.path \in {"primary", "fallback"}
        /\ t_out[i].out.val.is_real_threat \in BOOLEAN
        /\ t_out[i].out.val.threat_level \in {"info", "low", "medium", "high", "critical"}
        /\ t_out[i].out.val.confidence >= 0
        /\ t_out[i].out.val.confidence <= 100

\* a structured object with an out-of-range confidence was answered by the fallback
C5_Witness ==
    /\ Len(t_out) = 1
    /\ t_out[1].llm = LlmText(<<"{", "P_overconf", "}">>)
    /\ t_out[1].out.path = "fallback"
    /\ t_out[1].out.exc = "none"

\* C6: in the fallback path is_real_threat is true iff the dependency is
\* direct and the usage flag is true.
C6_FallbackRealIffDirectAndUsed ==
    \A o \in FallbackOutcomes :
        o.val.is_real_threat <=> (tq.dependency.is_direct /\ tq.is_dependency_used)

C6_Witness ==
    /\ \E o \in FallbackOutcomes : o.val.is_real_threat
    /\ tq.dependency.is_direct
    /\ tq.is_dependency_used

\* C7 as stated: in the fallback path a real threat keeps the advisory's raw
\* severity tier, for every raw severity in critical, high, medium, low.
C7_Original_RealKeepsRawSeverity ==
    \A o \in FallbackOutcomes :
        (o.val.is_real_threat /\ RawTier(tq.vulnerability.severity) \in FourTiers)
            => o.val.threat_level = RawTier(tq.vulnerability.severity)

\* C7 amended: in the fallback path a real threat gets high for raw severity
\* critical or high, medium for medium and low for low.
C7_RealThreatLevelTable ==
    \A o \in FallbackOutcomes :
        (o.val.is_real_threat /\ RawTier(tq.vulnerability.severity) \in FourTiers)
            => o.val.threat_level =
                 CASE RawTier(tq.vulnerability.severity) = "critical" -> "high"
                   [] RawTier(tq.vulnerability.severity) = "high" -> "high"
                   [] RawTier(tq.vulnerability.severity) = "medium" -> "medium"
                   [] RawTier(tq.vulnerability.severity) = "low" -> "low"

C7_Witness ==
    /\ \E o \in FallbackOutcomes : o.val.is_real_threat /\ o.val.threat_level = "high"
    /\ RawTier(tq.vulnerability.severity) = "critical"

\* C8 as stated: in the fallback path a pair that is not a real threat gets
\* the tier exactly one below the raw severity, for critical, high, medium, low.
C8_Original_NotRealOneTierDown ==
    \A o \in FallbackOutcomes :
        (o.exc = "none" /\ ~o.val.is_real_threat
         /\ RawTier(tq.vulnerability.severity) \in FourTiers)
            => TierRank(o.val.threat_level) = TierRank(RawTier(tq.vulnerability.severity)) - 1

\* C8 amended: in the fallback path a pair that is not a real threat gets
\* medium for raw severity critical or high, low for medium and low for low.
C8_NotRealThreatLevelTable ==
    \A o \in FallbackOutcomes :
        (o.exc = "none" /\ ~o.val.is_real_threat
         /\ RawTier(tq.vulnerability.severity) \in FourTiers)
            => o.val.threat_level =
                 CASE RawTier(tq.vulnerability.severity) = "critical" -> "medium"
                   [] RawTier(tq.vulnerability.severity) = "high" -> "medium"
                   [] RawTier(tq.vulnerability.severity) = "medium" -> "low"
                   [] RawTier(tq.vulnerability.severity) = "low" -> "low"

C8_Witness ==
    /\ \E o \in FallbackOutcomes :
          o.exc = "none" /\ ~o.val.is_real_threat /\ o.val.threat_level = "low"
    /\ RawTier(tq.vulnerability.severity) = "low"

C10_FallbackFixedConfidenceAndReasoning ==
    \A o \in FallbackOutcomes :
        /\ o.val.confidence = 50
        /\ o.val.reasoning = <<"Fallback analysis used due to LLM processing error">>

C10_Witness ==
    /\ \E o \in FallbackOutcomes : o.val.is_real_threat /\ o.val.confidence = 50
    /\ \E i \in 1..Len(t_out) : t_out[i].out.path = "fallback"

----------------------------------------------------------------------------
(* RepositoryService *)

\* the one directory name tempfile.mkdtemp hands out in a run
NewTempDir == "minotaur_1"

RepoUrl(scheme, netloc, parts) == [scheme |-> scheme, netloc |-> netloc, parts |-> parts]

\* locators a request may carry (HttpUrl: the scheme is http or https);
\* parts is the number of segments of the path
RepoUrls ==
    { RepoUrl("https", "github.com", 2),
      RepoUrl("https", "github.com", 1),
      RepoUrl("http", "gitlab.com", 2) }

_is_valid_github_url(url) ==
    /\ url.scheme \in {"http", "https"}
    /\ url.netloc \in {"github.com", "www.github.com"}
    /\ url.parts >= 2

\* cleanup(): rmtree_ok tells whether shutil.rmtree succeeds when it is called
cleanup(td, files, rmtree_ok) ==
    IF td # NoneValue /\ td \in files
    THEN IF rmtree_ok
         THEN [exc |-> "none", temp_dir |-> NoneValue, fs |-> files \ {td}]
         ELSE [exc |-> "OSError", temp_dir |-> td, fs |-> files]
    ELSE [exc |-> "none", temp_dir |-> td, fs |-> files]

\* what git.Repo.clone_from under asyncio.wait_for does
CloneOutcomes == {"ok", "TimeoutError", "GitCommandError", "Exception"}

\* clone_repository(repo_url): the exception it raises ("none" when it
\* returns repo_path), and the service state it leaves
clone_repository(url, td, files, clone_outcome, rmtree_ok) ==
    IF ~_is_valid_github_url(url)
    THEN [exc |-> "ValueError", temp_dir |-> td, fs |-> files, made |-> NoneValue]
    ELSE LET made == NewTempDir
             created == files \cup {made}
             cleaned == cleanup(made, created, rmtree_ok)
         IN  CASE clone_outcome = "ok" ->
                    [exc |-> "none", temp_dir |-> made, fs |-> created, made |-> made]
               [] clone_outcome \in {"TimeoutError", "GitCommandError"} ->
                    [exc |-> IF cleaned.exc # "none" THEN cleaned.exc ELSE clone_outcome,
                     temp_dir |-> cleaned.temp_dir, fs |-> cleaned.fs, made |-> made]
               [] OTHER ->
                    [exc |-> clone_outcome, temp_dir |-> made, fs |-> created, made |-> made]

----------------------------------------------------------------------------
(* Vulnerability database and matching *)

AffectedEntry(name, ecosystem, versions, fixed) ==
    [name |-> name, ecosystem |-> ecosystem, versions |-> versions, fixed |-> fixed]

Advisories ==
    { Vulnerability("ADV-1", "HIGH", <<AffectedEntry("a", "npm", {}, "1.0.1")>>),
      Vulnerability("ADV-2", "critical", <<AffectedEntry("b", "npm", {"1.0.0"}, NoneValue)>>),
      Vulnerability("ADV-3", NoneValue, <<AffectedEntry("b", "PyPI", {}, "2.0.0")>>) }

AdvisoryOrder == <<"ADV-1", "ADV-2", "ADV-3">>

\* packaging.version.parse on the version strings of the model; -1: unparsable
ParseVersion(v) ==
    CASE v = "1.0.0" -> 100
      [] v = "1.0.1" -> 101
      [] v = "2.0.0" -> 200
      [] OTHER -> -1

OsvEcosystem(dependency_type) == IF dependency_type = "python" THEN "PyPI" ELSE "npm"

is_vulnerability_affecting_version(vuln, dep) ==
    \/ ParseVersion(dep.version) = -1
    \/ \E i \in 1..Len(vuln.affected_packages) :
          LET entry == vuln.affected_packages[i]
          IN  /\ entry.name = dep.name
              /\ entry.ecosystem = OsvEcosystem(dep.dependency_type)
              /\ \/ dep.version \in entry.versions
                 \/ /\ entry.fixed # NoneValue
                    /\ ParseVersion(dep.version) < ParseVersion(entry.fixed)

\* the advisories of db that name the package, in database order
RECURSIVE SelectAdvisories(_, _, _)
SelectAdvisories(order, db, name) ==
    IF order = <<>> THEN <<>>
    ELSE LET hits == { v \in db : /\ v.id = Head(order)
                                  /\ \E i \in 1..Len(v.affected_packages) :
                                        v.affected_packages[i].name = name }
         IN  (IF hits = {} THEN <<>> ELSE <<CHOOSE v \in hits : TRUE>>)
             \o SelectAdvisories(Tail(order), db, name)

\* the distinct names of a dependency list, in order of first occurrence
RECURSIVE DistinctNames(_)
DistinctNames(deps) ==
    IF deps = <<>> THEN <<>>
    ELSE LET front == DistinctNames(SubSeq(deps, 1, Len(deps) - 1))
             last == deps[Len(deps)].name
         IN  IF \E i \in 1..Len(front) : front[i] = last THEN front
             ELSE Append(front, last)

\* get_vulnerabilities_batch: package name -> advisories the database holds for it
get_vulnerabilities_batch(deps, db) ==
    [i \in 1..Len(DistinctNames(deps)) |->
        [name |-> DistinctNames(deps)[i],
         vulns |-> SelectAdvisories(AdvisoryOrder, db, DistinctNames(deps)[i])]]

\* next((d for d in dependencies if d.name == dep_name), None): its index, 0 for None
FirstDepNamed(deps, dep_name) ==
    IF \E i \in 1..Len(deps) : deps[i].name = dep_name
    THEN CHOOSE i \in 1..Len(deps) :
            deps[i].name = dep_name /\ \A j \in 1..(i - 1) : deps[j].name # dep_name
    ELSE 0

\* the inner loop of _analyze_vulnerabilities over one package's advisories
RECURSIVE PairsFor(_, _)
PairsFor(vulns, deps_and_name) ==
    IF vulns = <<>> THEN <<>>
    ELSE LET deps == deps_and_name[1]
             k == FirstDepNamed(deps, deps_and_name[2])
         IN  (IF k # 0 /\ is_vulnerability_affecting_version(Head(vulns), deps[k])
              THEN <<[vuln |-> Head(vulns), dep |-> deps[k]]>>
              ELSE <<>>)
             \o PairsFor(Tail(vulns), deps_and_name)

RECURSIVE FlattenPairs(_, _)
FlattenPairs(vuln_by_dependency, deps) ==
    IF Len(vuln_by_dependency) = 0 THEN <<>>
    ELSE PairsFor(vuln_by_dependency[1].vulns, <<deps, vuln_by_dependency[1].name>>)
         \o FlattenPairs(Tail(vuln_by_dependency), deps)

_analyze_vulnerabilities(deps, db) ==
    FlattenPairs(get_vulnerabilities_batch(deps, db), deps)

----------------------------------------------------------------------------
(* AnalysisEngine.analyze_repository *)

AnalysisResponse(req, dependencies_analyzed, vulnerabilities_found, real_threats, critical_count, high_count, medium_count, low_count, reports, deps, errs) ==
    [repo_url |-> req.repo_url,
     dependencies_analyzed |-> dependencies_analyzed,
     vulnerabilities_found |-> vulnerabilities_found,
     real_threats |-> real_threats,
     critical_count |-> critical_count, high_count |-> high_count,
     medium_count |-> medium_count, low_count |-> low_count,
     vulnerability_reports |-> reports, dependencies |-> deps, errors |-> errs]

\* the report of the `if not dependencies` branch
NoDependenciesResponse_LocalErrors(req, errs) ==
    AnalysisResponse(req, 0, 0, 0, 0, 0, 0, 0, <<>>, <<>>, errs)

NoDependenciesResponse(req, errs) ==
    AnalysisResponse(req, 0, 0, 0, 0, 0, 0, 0, <<>>, <<>>,
                     <<<<"No dependencies found in repository">>>>)

\* the report of the `except Exception` handler
FailedResponse_KeepsPartial(req, errs) ==
    AnalysisResponse(req, Len(dependencies), Len(vulnerability_reports), 0,
                     0, 0, 0, 0, vulnerability_reports, dependencies, errs)

FailedResponse(req, errs) ==
    AnalysisResponse(req, 0, 0, 0, 0, 0, 0, 0, <<>>, <<>>, errs)

\* _calculate_threat_counts(reports).get(level, 0)
RECURSIVE _calculate_threat_counts(_, _)
_calculate_threat_counts(reports, level) ==
    IF reports = <<>> THEN 0
    ELSE (IF Head(reports).threat_level = level THEN 1 ELSE 0)
         + _calculate_threat_counts(Tail(reports), level)

\* sum(1 for report in vulnerability_reports if report.is_real_threat)
RECURSIVE CountRealThreats(_)
CountRealThreats(reports) ==
    IF reports = <<>> THEN 0
    ELSE (IF Head(reports).is_real_threat THEN 1 ELSE 0) + CountRealThreats(Tail(reports))

\* the report of a run that went through every stage, whose real-threat count
\* is decided by the first report alone
CompletedResponse_HeadDecides(req, deps, reports, errs) ==
    AnalysisResponse(req, Len(deps), Len(reports),
                     IF reports # <<>> /\ Head(reports).is_real_threat
                     THEN Len(reports) ELSE 0,
                     _calculate_threat_counts(reports, "critical"),
                     _calculate_threat_counts(reports, "high"),
                     _calculate_threat_counts(reports, "medium"),
                     _calculate_threat_counts(reports, "low"),
                     reports, deps, errs)

\* the report of a run that went through every stage, with the info-level
\* reports counted as low
CompletedResponse_LowIncludesInfo(req, deps, reports, errs) ==
    AnalysisResponse(req, Len(deps), Len(reports), CountRealThreats(reports),
                     _calculate_threat_counts(reports, "critical"),
                     _calculate_threat_counts(reports, "high"),
                     _calculate_threat_counts(reports, "medium"),
                     _calculate_threat_counts(reports, "low")
                         + _calculate_threat_counts(reports, "info"),
                     reports, deps, errs)

\* the same report with every report counted as a real threat
CompletedResponse_EveryReportReal(req, deps, reports, errs) ==
    AnalysisResponse(req, Len(deps), Len(reports), Len(reports),
                     _calculate_threat_counts(reports, "critical"),
                     _calculate_threat_counts(reports, "high"),
                     _calculate_threat_counts(reports, "medium"),
                     _calculate_threat_counts(reports, "low"),
                     reports, deps, errs)

\* the report of a run that went through every stage
CompletedResponse(req, deps, reports, errs) ==
    AnalysisResponse(req, Len(deps), Len(reports), CountRealThreats(reports),
                     _calculate_threat_counts(reports, "critical"),
                     _calculate_threat_counts(reports, "high"),
                     _calculate_threat_counts(reports, "medium"),
                     _calculate_threat_counts(reports, "low"),
                     reports, deps, errs)

\* dependency_usage.get(name, True)
UsageGet(usage, name) == IF name \in DOMAIN usage THEN usage[name] ELSE TRUE

VulnerabilityReport(vuln, dep, usage, triage_result) ==
    [vulnerability |-> vuln.id,
     dependency |-> dep.name,
     dependency_version |-> dep.version,
     is_real_threat |-> triage_result.is_real_threat,
     threat_level |-> triage_result.threat_level,
     impact_summary |-> triage_result.impact_summary,
     recommendation |-> triage_result.recommendation,
     evidence |-> [is_direct_dependency |-> dep.is_direct,
                   is_dependency_used |-> UsageGet(usage, dep.name),
                   triage_confidence |-> triage_result.confidence,
                   triage_reasoning |-> triage_result.reasoning],
     triage_confidence |-> triage_result.confidence]

\* _generate_repo_context: the parts of the context text
_generate_repo_context(tree, deps) ==
    LET npm_count == Cardinality({ i \in 1..Len(deps) : deps[i].dependency_type = "npm" })
        python_count == Cardinality({ i \in 1..Len(deps) : deps[i].dependency_type = "python" })
        direct_count == Cardinality({ i \in 1..Len(deps) : deps[i].is_direct })
    IN  <<<<"dependencies", Len(deps)>>>>
        \o (IF npm_count > 0 THEN <<<<"npm", npm_count>>>> ELSE <<>>)
        \o (IF python_count > 0 THEN <<<<"python", python_count>>>> ELSE <<>>)
        \o <<<<"direct", direct_count, Len(deps) - direct_count>>>>
        \o (IF tree.exts # {} THEN <<<<"file types", tree.exts>>>> ELSE <<>>)

\* dependency lists an extraction may return
DepLists == UNION { [1..k -> DepUniverse] : k \in 0..MaxDeps }

\* trees a clone may produce
Checkouts == { [exts |-> {}], [exts |-> {".js", ".py"}] }

Init ==
    /\ IdleTriage
    /\ IdleExtract
    /\ IdleMatch
    /\ IdleRuns
    /\ IdleUsage
    /\ request \in [repo_url : RepoUrls, include_transitive : BOOLEAN]
    /\ checkout = [exts |-> {}]
    /\ pc = "clone"
    /\ temp_dir = NoneValue
    /\ fs = {}
    /\ dependencies = <<>>
    /\ dep_i = 0
    /\ dependency_usage = [n \in {} |-> FALSE]
    /\ all_vulnerabilities = <<>>
    /\ vulnerability_reports = <<>>
    /\ errors = <<>>
    /\ response = <<>>
    /\ hist = NoHist

\* the `except Exception as e` handler: cleanup(), then the failure report;
\* an exception of cleanup() leaves analyze_repository
ExceptHandler(e, td, files, h, stage) ==
    \E rmtree_ok \in BOOLEAN :
        LET cleaned == cleanup(td, files, rmtree_ok)
            errs == Append(errors, <<"Analysis failed", e>>)
        IN  /\ temp_dir' = cleaned.temp_dir
            /\ fs' = cleaned.fs
            /\ IF cleaned.exc # "none"
               THEN /\ pc' = "raised"
                    /\ errors' = errors
                    /\ response' = <<>>
                    /\ hist' = [h EXCEPT !.cleanups = @ + 1, !.exit_path = "raised",
                                         !.failed_at = stage]
               ELSE /\ pc' = "done"
                    /\ errors' = errs
                    /\ response' = <<FailedResponse(request, errs)>>
                    /\ hist' = [h EXCEPT !.cleanups = @ + 1, !.exit_path = "failed",
                                         !.failed_at = stage]

\* Step 1: clone the repository
CloneRepository ==
    /\ pc = "clone"
    /\ \E clone_outcome \in CloneOutcomes, rmtree_ok \in BOOLEAN, tree \in Checkouts :
          LET cloned == clone_repository(request.repo_url, temp_dir, fs,
                                         clone_outcome, rmtree_ok)
              h == [hist EXCEPT !.checkout_dir = cloned.made,
                                !.cleanups = IF cloned.made # NoneValue
                                                /\ clone_outcome \in {"TimeoutError",
                                                                      "GitCommandError"}
                                             THEN @ + 1 ELSE @]
          IN  IF cloned.exc = "none"
              THEN /\ pc' = "extract"
                   /\ temp_dir' = cloned.temp_dir
                   /\ fs' = cloned.fs
                   /\ checkout' = tree
                   /\ hist' = [h EXCEPT !.acquired = TRUE]
                   /\ UNCHANGED <<errors, response>>
              ELSE /\ ExceptHandler(cloned.exc, cloned.temp_dir, cloned.fs, h, "clone")
                   /\ UNCHANGED checkout
    /\ UNCHANGED <<request, dependencies, dep_i, dependency_usage, all_vulnerabilities,
                   vulnerability_reports>>
    /\ UNCHANGED <<triageVars, extractVars, matchVars, u_in, u_out, runs>>

\* Step 2: extract the dependencies; an empty list returns at once
ExtractDependencies ==
    /\ pc = "extract"
    /\ \/ \E deps \in DepLists :
             /\ dependencies' = deps
             /\ IF deps = <<>>
                THEN /\ pc' = "done"
                     /\ response' = <<NoDependenciesResponse(request, errors)>>
                     /\ hist' = [hist EXCEPT !.extracted = TRUE, !.exit_path = "empty"]
                     /\ dep_i' = dep_i
                ELSE /\ pc' = "usage"
                     /\ response' = response
                     /\ hist' = [hist EXCEPT !.extracted = TRUE]
                     /\ dep_i' = 1
             /\ UNCHANGED <<temp_dir, fs, errors>>
       \/ /\ ExceptHandler("extraction error", temp_dir, fs, hist, "extract")
          /\ UNCHANGED <<dependencies, dep_i>>
    /\ UNCHANGED <<request, checkout, dependency_usage, all_vulnerabilities,
                   vulnerability_reports>>
    /\ UNCHANGED <<triageVars, extractVars, matchVars, u_in, u_out, runs>>

\* what is_dependency_used may return for the entry at index i: the detector is
\* a function of the entry and of the checkout, so an entry equal to an earlier
\* one gets the earlier result
UsageResults(deps, i, results) ==
    IF \E j \in 1..(i - 1) : deps[j] = deps[i]
    THEN { results[CHOOSE j \in 1..(i - 1) : deps[j] = deps[i]] }
    ELSE BOOLEAN

\* Step 3 leaving the loop after its first iteration
CheckDependencyUsage_OneIteration ==
    /\ pc = "usage"
    /\ \/ \E used \in UsageResults(dependencies, dep_i, hist.usage_results) :
             LET name == dependencies[dep_i].name
             IN  /\ dependency_usage' =
                        [n \in DOMAIN dependency_usage \cup {name} |->
                            IF n = name THEN used ELSE dependency_usage[n]]
                 /\ hist' = [hist EXCEPT !.usage_calls = Append(@, name),
                                         !.usage_results = Append(@, used)]
                 /\ dep_i' = dep_i + 1
                 /\ pc' = "match"
                 /\ UNCHANGED <<temp_dir, fs, errors, response>>
       \/ /\ ExceptHandler("usage error", temp_dir, fs, hist, "usage")
          /\ UNCHANGED <<dependency_usage, dep_i>>
    /\ UNCHANGED <<request, checkout, dependencies, all_vulnerabilities,
                   vulnerability_reports>>
    /\ UNCHANGED <<triageVars, extractVars, matchVars, u_in, u_out, runs>>

\* Step 3: one iteration of `for dep in dependencies`
CheckDependencyUsage ==
    /\ pc = "usage"
    /\ \/ \E used \in UsageResults(dependencies, dep_i, hist.usage_results) :
             LET name == dependencies[dep_i].name
             IN  /\ dependency_usage' =
                        [n \in DOMAIN dependency_usage \cup {name} |->
                            IF n = name THEN used ELSE dependency_usage[n]]
                 /\ hist' = [hist EXCEPT !.usage_calls = Append(@, name),
                                         !.usage_results = Append(@, used)]
                 /\ dep_i' = dep_i + 1
                 /\ pc' = IF dep_i = Len(dependencies) THEN "match" ELSE "usage"
                 /\ UNCHANGED <<temp_dir, fs, errors, response>>
       \/ /\ ExceptHandler("usage error", temp_dir, fs, hist, "usage")
          /\ UNCHANGED <<dependency_usage, dep_i>>
    /\ UNCHANGED <<request, checkout, dependencies, all_vulnerabilities,
                   vulnerability_reports>>
    /\ UNCHANGED <<triageVars, extractVars, matchVars, u_in, u_out, runs>>

\* Steps 4 and 5: query and match the advisories, build the context
AnalyzeVulnerabilities ==
    /\ pc = "match"
    /\ \/ \E db \in SUBSET Advisories :
             /\ all_vulnerabilities' = _analyze_vulnerabilities(dependencies, db)
             /\ hist' = [hist EXCEPT !.vuln_queries = @ + 1]
             /\ pc' = "triage"
             /\ UNCHANGED <<temp_dir, fs, errors, response>>
       \/ \E stage \in {"match", "context"} :
             /\ ExceptHandler("stage error", temp_dir, fs,
                              [hist EXCEPT !.vuln_queries = @ + 1], stage)
             /\ UNCHANGED all_vulnerabilities
    /\ UNCHANGED <<request, checkout, dependencies, dep_i, dependency_usage,
                   vulnerability_reports>>
    /\ UNCHANGED <<triageVars, extractVars, matchVars, u_in, u_out, runs>>

\* Step 6: one iteration of `for vuln, dep in all_vulnerabilities`
TriagePair ==
    /\ pc = "triage"
    /\ Len(vulnerability_reports) < Len(all_vulnerabilities)
    /\ LET pair == all_vulnerabilities[Len(vulnerability_reports) + 1]
           used == UsageGet(dependency_usage, pair.dep.name)
           repo_context == _generate_repo_context(checkout, dependencies)
           h == [hist EXCEPT !.triage_calls = @ + 1]
       IN  \E out \in { triage_vulnerability(pair.vuln, pair.dep, repo_context, used, llm) :
                           llm \in LlmBehaviours } :
              IF out.exc = "none"
              THEN /\ vulnerability_reports' =
                          Append(vulnerability_reports,
                                 VulnerabilityReport(pair.vuln, pair.dep,
                                                     dependency_usage, out.val))
                   /\ hist' = h
                   /\ UNCHANGED <<pc, temp_dir, fs, errors, response>>
              ELSE /\ ExceptHandler(out.exc, temp_dir, fs, h, "triage")
                   /\ UNCHANGED vulnerability_reports
    /\ UNCHANGED <<request, checkout, dependencies, dep_i, dependency_usage,
                   all_vulnerabilities>>
    /\ UNCHANGED <<triageVars, extractVars, matchVars, u_in, u_out, runs>>

\* Steps 7 and 8: the counts, cleanup() and the report; an exception of
\* cleanup() is caught by the handler like any other
Finish ==
    /\ pc = "triage"
    /\ Len(vulnerability_reports) = Len(all_vulnerabilities)
    /\ \E rmtree_ok \in BOOLEAN :
          LET cleaned == cleanup(temp_dir, fs, rmtree_ok)
              h == [hist EXCEPT !.cleanups = @ + 1]
          IN  IF cleaned.exc = "none"
              THEN /\ temp_dir' = cleaned.temp_dir
                   /\ fs' = cleaned.fs
                   /\ pc' = "done"
                   /\ response' = <<CompletedResponse(request, dependencies,
                                                      vulnerability_reports, errors)>>
                   /\ hist' = [h EXCEPT !.exit_path = "completed"]
                   /\ UNCHANGED errors
              ELSE ExceptHandler(cleaned.exc, cleaned.temp_dir, cleaned.fs, h, "cleanup")
    /\ UNCHANGED <<request, checkout, dependencies, dep_i, dependency_usage,
                   all_vulnerabilities, vulnerability_reports>>
    /\ UNCHANGED <<triageVars, extractVars, matchVars, u_in, u_out, runs>>

Next ==
    \/ CloneRepository
    \/ ExtractDependencies
    \/ CheckDependencyUsage
    \/ AnalyzeVulnerabilities
    \/ TriagePair
    \/ Finish

Spec == Init /\ [][Next]_vars

----------------------------------------------------------------------------
(* Properties of the run *)

\* C1 as stated: whenever a report is returned after a checkout was acquired,
\* cleanup has run and the checkout directory no longer exists.
C1_CheckoutReleasedOnEveryExit ==
    (response # <<>> /\ hist.acquired)
        => (hist.checkout_dir \notin fs /\ temp_dir = NoneValue /\ hist.cleanups >= 1)

\* C2 as stated: analyze_repository never raises to its caller, whichever
\* stage fails, the release step included.
C2_NeverRaisesToCaller ==
    pc # "raised" /\ hist.exit_path # "raised"

\* C3: when extraction yields an empty list the run returns at once, with no
\* usage detection, no vulnerability query and no triage call, and its report
\* has zero counts and errors = ["No dependencies found in repository"].
C3_EmptyListShortCircuit ==
    (hist.extracted /\ dependencies = <<>>)
        => /\ pc = "done"
           /\ hist.usage_calls = <<>>
           /\ hist.vuln_queries = 0
           /\ hist.triage_calls = 0
           /\ Len(response) = 1
           /\ response[1].dependencies_analyzed = 0
           /\ response[1].vulnerabilities_found = 0
           /\ response[1].real_threats = 0
           /\ response[1].errors = <<<<"No dependencies found in repository">>>>

C3_Witness ==
    /\ hist.acquired
    /\ hist.extracted
    /\ dependencies = <<>>
    /\ hist.exit_path = "empty"
    /\ Len(response) = 1

\* C4: the report of a failed run has zero counts, empty report and
\* dependency lists and exactly one error, which begins with "Analysis
\* failed", whatever had been computed before the failure.
C4_FailedReportIsEmpty ==
    hist.exit_path = "failed"
        => /\ Len(response) = 1
           /\ response[1].dependencies_analyzed = 0
           /\ response[1].vulnerabilities_found = 0
           /\ response[1].real_threats = 0
           /\ response[1].critical_count = 0
           /\ response[1].high_count = 0
           /\ response[1].medium_count = 0
           /\ response[1].low_count = 0
           /\ response[1].vulnerability_reports = <<>>
           /\ response[1].dependencies = <<>>
           /\ Len(response[1].errors) = 1
           /\ response[1].errors[1][1] = "Analysis failed"

\* a run failed after dependencies and vulnerability reports had been computed
C4_Witness ==
    /\ hist.exit_path = "failed"
    /\ Len(response) = 1
    /\ Len(dependencies) > 0
    /\ Len(vulnerability_reports) > 0

\* ---------------------------------------------------------------------------
\* Dependency extraction (app/services/dependency_service.py)
\* ---------------------------------------------------------------------------

MaxLockDepth == 2
MaxReqLines == 2
MaxCap == 3
DefaultMaxDependencies == 1000

\* A Python dict is the sequence of its items in insertion order
DictHas(d, k) == \E i \in 1..Len(d) : d[i].key = k

DictGet(d, k) == d[CHOOSE i \in 1..Len(d) : d[i].key = k].value

\* d[k] = v: an existing key keeps its position, a new key goes last
DictSet(d, k, v) ==
    IF DictHas(d, k)
    THEN [i \in 1..Len(d) |-> IF d[i].key = k THEN [key |-> k, value |-> v] ELSE d[i]]
    ELSE Append(d, [key |-> k, value |-> v])

RECURSIVE DictUpdate(_, _)
DictUpdate(d, e) ==
    IF e = <<>> THEN d
    ELSE DictUpdate(DictSet(d, Head(e).key, Head(e).value), Tail(e))

\* a file of the checkout: absent, unreadable by its parser, or parsed data
AbsentFile == [state |-> "absent", data |-> <<>>]
MalformedFile == [state |-> "malformed", data |-> <<>>]
OkFile(data) == [state |-> "ok", data |-> data]

\* an entry of a lock file's "dependencies" object; version NoneValue stands for
\* an entry without a "version" key
LockNode(name, version, deps) == [name |-> name, version |-> version, deps |-> deps]

\* the value _extract_npm_lock_dependencies stores per name
LockInfo(version, parent) == [version |-> version, parent |-> parent]

\* process_dependencies: walks the entries in order, writes dependencies[name]
\* and descends into the entry's own "dependencies" before the next sibling
RECURSIVE process_dependencies(_, _, _)
process_dependencies(acc, deps, parent) ==
    IF deps = <<>> THEN acc
    ELSE LET node == Head(deps)
             here == IF node.version # NoneValue
                     THEN process_dependencies(
                              DictSet(acc, node.name, LockInfo(node.version, parent)),
                              node.deps, node.name)
                     ELSE acc
         IN  process_dependencies(here, Tail(deps), parent)

_extract_npm_lock_dependencies(lock_data) ==
    IF lock_data.has_dependencies
    THEN process_dependencies(<<>>, lock_data.dependencies, NoneValue)
    ELSE <<>>

\* for name, version_spec in direct_deps.items(): Dependency(...)
DirectNpm(direct_deps) ==
    [i \in 1..Len(direct_deps) |->
        Dependency(direct_deps[i].key, direct_deps[i].value, "npm", TRUE, NoneValue,
                   Metadata("package.json", NoneValue, FALSE))]

\* for dep in dependencies: if dep.name in all_deps: take the lock's version
LockUpdated(deps, all_deps) ==
    [i \in 1..Len(deps) |->
        IF DictHas(all_deps, deps[i].name)
        THEN [deps[i] EXCEPT !.version = DictGet(all_deps, deps[i].name).version,
                             !.metadata.locked = TRUE]
        ELSE deps[i]]

\* for name, dep_info in all_deps.items(): append the names not yet listed
RECURSIVE AddTransitive(_, _)
AddTransitive(deps, all_deps) ==
    IF all_deps = <<>> THEN deps
    ELSE LET name == Head(all_deps).key
             info == Head(all_deps).value
         IN  AddTransitive(
                 IF \E i \in 1..Len(deps) : deps[i].name = name THEN deps
                 ELSE Append(deps, Dependency(name, info.version, "npm", FALSE, info.parent,
                                              Metadata(NoneValue, NoneValue, TRUE))),
                 Tail(all_deps))

\* outcome of a parser: the exception it raises (NoneValue if none) and its list
Parsed(deps) == [exc |-> NoneValue, deps |-> deps]
ParseError(exc) == [exc |-> exc, deps |-> <<>>]

_parse_npm_dependencies(package_json, package_lock) ==
    IF package_json.state = "malformed" THEN ParseError("JSONDecodeError")
    ELSE LET package_data == package_json.data
             direct_deps == DictUpdate(DictUpdate(<<>>, package_data.dependencies),
                                       package_data.devDependencies)
             direct == DirectNpm(direct_deps)
         IN  IF package_lock.state = "absent" THEN Parsed(direct)
             ELSE IF package_lock.state = "malformed" THEN ParseError("JSONDecodeError")
             ELSE LET all_deps == _extract_npm_lock_dependencies(package_lock.data)
                  IN  Parsed(AddTransitive(LockUpdated(direct, all_deps), all_deps))

\* "".join(tokens)
RECURSIVE Join(_)
Join(s) == IF s = <<>> THEN "" ELSE Head(s) \o Join(Tail(s))

\* line.find(op) for a two-character operator: 0-based position, -1 if absent
FindOp(line, op) ==
    LET hits == { i \in 1..(Len(line) - 1) : line[i] = op[1] /\ line[i + 1] = op[2] }
    IN  IF hits = {} THEN -1
        ELSE (CHOOSE i \in hits : \A j \in hits : i <= j) - 1

\* the same operators with != tried before >=
RequirementOps_NeBeforeGe == << <<"=", "=">>, <<"!", "=">>, <<"<", "=">>, <<">", "=">>, <<"~", "=">> >>

\* the operators _parse_requirement_line tries, in the order it tries them
RequirementOps == << <<"=", "=">>, <<">", "=">>, <<"<", "=">>, <<"!", "=">>, <<"~", "=">> >>

\* a requirement line is its sequence of tokens: the characters = > < ! ~ # ,
\* and the blank, and words made of other characters
_parse_requirement_line(raw) ==
    LET line == Strip(IF Find(raw, "#") = -1 THEN raw ELSE Slice(raw, 0, Find(raw, "#")))
        found == { k \in 1..Len(RequirementOps) : FindOp(line, RequirementOps[k]) # -1 }
        pair(name, version) == [name |-> Join(Strip(name)), version |-> Join(Strip(version))]
    IN  IF found # {}
        THEN LET k == CHOOSE k \in found : \A j \in found : k <= j
                 at == FindOp(line, RequirementOps[k])
             IN  pair(Slice(line, 0, at), Slice(line, at + 2, Len(line)))
        ELSE IF Find(line, "=") # -1
        THEN pair(Slice(line, 0, Find(line, "=")), Slice(line, Find(line, "=") + 1, Len(line)))
        ELSE [name |-> Join(line), version |-> "*"]

RECURSIVE RequirementLines(_)
RequirementLines(lines) ==
    IF lines = <<>> THEN <<>>
    ELSE LET line == Strip(Head(lines))
             parsed == _parse_requirement_line(line)
         IN  (IF line # <<>> /\ Head(line) # "#" /\ parsed.name # ""
              THEN <<Dependency(parsed.name, parsed.version, "python", TRUE, NoneValue,
                                Metadata("requirements.txt", NoneValue, FALSE))>>
              ELSE <<>>)
             \o RequirementLines(Tail(lines))

_parse_requirements_txt(requirements_txt) ==
    IF requirements_txt.state = "malformed" THEN ParseError("UnicodeDecodeError")
    ELSE Parsed(RequirementLines(requirements_txt.data))

\* a value of a poetry dependency table: a string, a table with or without a
\* "version" key (version NoneValue), or anything else
PoetrySpec(kind, version) == [kind |-> kind, version |-> version]

PoetryVersion(spec) ==
    IF spec.kind = "str" THEN spec.version
    ELSE IF spec.kind = "dict" THEN (IF spec.version # NoneValue THEN spec.version ELSE "*")
    ELSE "*"

PoetryTable(table, dep_type) ==
    [i \in 1..Len(table) |->
        Dependency(table[i].key, PoetryVersion(table[i].value), "python", TRUE, NoneValue,
                   Metadata("pyproject.toml", dep_type, FALSE))]

_parse_pyproject_toml(pyproject_toml) ==
    IF pyproject_toml.state = "malformed" THEN ParseError("TomlDecodeError")
    ELSE LET poetry_data == pyproject_toml.data
         IN  IF poetry_data.has_poetry
             THEN Parsed(PoetryTable(poetry_data.dependencies, "dependencies")
                         \o PoetryTable(poetry_data.dev_dependencies, "dev-dependencies"))
             ELSE Parsed(<<>>)

\* dependencies[:max_dependencies] keeping the tail instead of the head
Truncate_KeepLast(deps, max_dependencies) ==
    IF Len(deps) > max_dependencies
    THEN SubSeq(deps, Len(deps) - max_dependencies + 1, Len(deps))
    ELSE deps

\* if len(dependencies) > max_dependencies: dependencies[:max_dependencies]
Truncate(deps, max_dependencies) ==
    IF Len(deps) > max_dependencies THEN SubSeq(deps, 1, max_dependencies) ELSE deps

\* the three gated parser calls, in order; the first exception leaves the method
extract_dependencies(tree, max_dependencies) ==
    LET npm == IF tree.package_json.state # "absent"
               THEN _parse_npm_dependencies(tree.package_json, tree.package_lock)
               ELSE Parsed(<<>>)
        req == IF tree.requirements_txt.state # "absent"
               THEN _parse_requirements_txt(tree.requirements_txt)
               ELSE Parsed(<<>>)
        poetry == IF tree.pyproject_toml.state # "absent"
                  THEN _parse_pyproject_toml(tree.pyproject_toml)
                  ELSE Parsed(<<>>)
    IN  IF npm.exc # NoneValue THEN npm
        ELSE IF req.exc # NoneValue THEN req
        ELSE IF poetry.exc # NoneValue THEN poetry
        ELSE Parsed(Truncate(npm.deps \o req.deps \o poetry.deps, max_dependencies))

\* --- the trees the extraction is exercised on -------------------------------

Item(k, v) == [key |-> k, value |-> v]

PackageData(deps, dev) == [dependencies |-> deps, devDependencies |-> dev]

ManifestDicts == { <<>>, <<Item("a", "^1.0")>>, <<Item("a", "^1.0"), Item("c", "^1.0")>> }

DevDicts == { <<>>, <<Item("a", "~9.9")>>, <<Item("d", "~9.9")>> }

PackageJsons ==
    {AbsentFile, MalformedFile}
        \cup { OkFile(PackageData(d, e)) : d \in ManifestDicts, e \in DevDicts }

LockNames == {"a", "c"}

\* the exact version a lock entry pins at a nesting depth
LockVersion(depth) == <<"1.0.0", "2.0.0", "3.0.0", "4.0.0">>[depth]

\* lock entries at a depth: without a version, pinned, pinned with one nested
\* entry of another name
RECURSIVE LockNodes(_)
LockNodes(depth) ==
    { LockNode(n, v, <<>>) : n \in LockNames, v \in {NoneValue, LockVersion(depth)} }
        \cup (IF depth < MaxLockDepth
              THEN { LockNode(nc[1], LockVersion(depth), <<nc[2]>>) :
                        nc \in { x \in LockNames \X LockNodes(depth + 1) : x[2].name # x[1] } }
              ELSE {})

LockTops ==
    { <<>> } \cup { <<n>> : n \in LockNodes(1) }
        \cup { <<nm[1], nm[2]>> :
                  nm \in { x \in LockNodes(1) \X LockNodes(1) : x[1].name # x[2].name } }

LockData(has_dependencies, deps) == [has_dependencies |-> has_dependencies, dependencies |-> deps]

LockFiles ==
    {AbsentFile, MalformedFile, OkFile(LockData(FALSE, <<>>))}
        \cup { OkFile(LockData(TRUE, t)) : t \in LockTops }

ReqLines ==
    { <<"a", "=", "=", "1.0">>,
      <<"a", ">", "=", "1.0", ",", "<", "2.0">>,
      <<" ", "b", "~", "=", "1.0", " ", "#", "x", "=", "=", "9">>,
      <<"b", "=", "1">>,
      <<"b">>,
      <<"#", "b", "=", "=", "1">>,
      <<" ">>,
      <<"=", "=", "1.0">>,
      <<"a", "<", "2">>,
      <<"a", "!", "=", "1", ",", ">", "=", "2">>,
      <<"b", " ", "<", "=", " ", "2">> }

RECURSIVE SeqsUpTo(_, _)
SeqsUpTo(S, n) ==
    IF n = 0 THEN { <<>> }
    ELSE SeqsUpTo(S, n - 1)
             \cup { Append(q, x) : q \in { r \in SeqsUpTo(S, n - 1) : Len(r) = n - 1 }, x \in S }

RequirementsTxts ==
    {AbsentFile, MalformedFile} \cup { OkFile(ls) : ls \in SeqsUpTo(ReqLines, MaxReqLines) }

PoetrySpecs ==
    { PoetrySpec("str", "^2.0"), PoetrySpec("dict", "1.5"),
      PoetrySpec("dict", NoneValue), PoetrySpec("other", NoneValue) }

PoetryData(has_poetry, deps, dev) ==
    [has_poetry |-> has_poetry, dependencies |-> deps, dev_dependencies |-> dev]

Pyprojects ==
    {AbsentFile, MalformedFile, OkFile(PoetryData(FALSE, <<>>, <<>>))}
        \cup { OkFile(PoetryData(TRUE, d, e)) :
                  d \in { <<>> } \cup { <<Item("b", sp)>> : sp \in PoetrySpecs },
                  e \in { <<>>, <<Item("e", PoetrySpec("str", "^2.0"))>> } }

Tree(package_json, package_lock, requirements_txt, pyproject_toml) ==
    [package_json |-> package_json, package_lock |-> package_lock,
     requirements_txt |-> requirements_txt, pyproject_toml |-> pyproject_toml]

SamplePackageJson == OkFile(PackageData(<<Item("a", "^1.0")>>, <<Item("d", "~9.9")>>))

SampleLock == OkFile(LockData(TRUE, <<LockNode("a", "1.0.0", <<>>), LockNode("c", "1.0.0", <<>>)>>))

SampleRequirements == OkFile(<< <<"a", "=", "=", "1.0">> >>)

SamplePyproject ==
    OkFile(PoetryData(TRUE, <<Item("b", PoetrySpec("str", "^2.0"))>>,
                      <<Item("e", PoetrySpec("str", "^2.0"))>>))

\* every npm manifest and lock, beside a fixed Python side
NpmTrees ==
    { Tree(pj, pl, rt, AbsentFile) :
         pj \in PackageJsons, pl \in LockFiles, rt \in {AbsentFile, SampleRequirements} }

\* every requirements.txt and pyproject.toml, beside a fixed npm side
PythonTrees ==
    { Tree(pj, AbsentFile, rt, pp) :
         pj \in {AbsentFile, SamplePackageJson}, rt \in RequirementsTxts, pp \in Pyprojects }

\* each of the four files absent, malformed or well-formed
MixedTrees ==
    { Tree(pj, pl, rt, pp) :
         pj \in {AbsentFile, MalformedFile, SamplePackageJson},
         pl \in {AbsentFile, MalformedFile, SampleLock},
         rt \in {AbsentFile, MalformedFile, SampleRequirements},
         pp \in {AbsentFile, MalformedFile, SamplePyproject} }

ExtractTrees == NpmTrees \cup PythonTrees \cup MixedTrees

\* settings.validate keeps MAX_DEPENDENCIES positive
Caps == (1..MaxCap) \cup {DefaultMaxDependencies}

InitExtract ==
    /\ IdleEngine
    /\ IdleTriage
    /\ IdleMatch
    /\ IdleRuns
    /\ IdleUsage
    /\ \E tree \in ExtractTrees, cap \in Caps : x_in = <<[tree |-> tree, cap |-> cap]>>
    /\ x_out = <<>>

ExtractCall ==
    /\ x_in # <<>>
    /\ x_out = <<>>
    /\ x_out' = <<extract_dependencies(x_in[1].tree, x_in[1].cap)>>
    /\ UNCHANGED <<engineVars, triageVars, matchVars, u_in, u_out, runs, x_in>>

SpecExtract == InitExtract /\ [][ExtractCall]_vars

\* --- extraction claims ------------------------------------------------------

\* where an extracted entry was discovered: 1 npm manifest, 2 npm lock only,
\* 3 requirements.txt, 4 pyproject.toml
DiscoveryRank(dep) ==
    IF dep.dependency_type = "npm" THEN (IF dep.is_direct THEN 1 ELSE 2)
    ELSE IF dep.metadata.source = "requirements.txt" THEN 3
    ELSE 4

\* the extraction of the same tree under a cap no list reaches
Untruncated(tree) == extract_dependencies(tree, 1000000).deps

IsPrefix(r, u) == Len(r) <= Len(u) /\ \A i \in 1..Len(r) : r[i] = u[i]

RECURSIVE LockVersionsOf(_, _)
LockVersionsOf(nodes, name) ==
    IF nodes = <<>> THEN {}
    ELSE (IF Head(nodes).name = name /\ Head(nodes).version # NoneValue
          THEN {Head(nodes).version} ELSE {})
         \cup LockVersionsOf(Head(nodes).deps, name)
         \cup LockVersionsOf(Tail(nodes), name)

\* the version the lock resolves for the project's own requirement of a name:
\* the top-level entry's
TopLevelVersions(nodes, name) ==
    { nodes[i].version : i \in { j \in 1..Len(nodes) : /\ nodes[j].name = name
                                                        /\ nodes[j].version # NoneValue } }

\* C12: a direct npm dependency whose name the lock structure pins carries a
\* version the lock pins for that name, and the top-level (resolved) one when
\* the lock has it, also when the name occurs again, nested, with another version.
C12_DirectVersionIsLockResolved ==
    (x_out # <<>> /\ x_out[1].exc = NoneValue /\ x_in[1].tree.package_lock.state = "ok")
        => LET nodes == x_in[1].tree.package_lock.data.dependencies
               deps == x_out[1].deps
           IN  \A i \in 1..Len(deps) :
                   (deps[i].dependency_type = "npm" /\ deps[i].is_direct)
                       => /\ LockVersionsOf(nodes, deps[i].name) # {}
                                => deps[i].version \in LockVersionsOf(nodes, deps[i].name)
                          /\ TopLevelVersions(nodes, deps[i].name) # {}
                                => deps[i].version \in TopLevelVersions(nodes, deps[i].name)

\* a tree with every malformed file taken away
WithoutMalformed(tree) ==
    [f \in DOMAIN tree |-> IF tree[f].state = "malformed" THEN AbsentFile ELSE tree[f]]

\* C13: an extraction over a tree with a malformed manifest file returns, and
\* returns what the well-formed files alone yield.
C13_MalformedFileSkipsOnlyThatFile ==
    x_out # <<>>
        => /\ x_out[1].exc = NoneValue
           /\ x_out[1].deps
                 = extract_dependencies(WithoutMalformed(x_in[1].tree), x_in[1].cap).deps

----------------------------------------------------------------------------
(* Properties of the report and of the stages of a run *)

\* the reports of a list at a threat level
ReportsAt(reports, levels) == { i \in 1..Len(reports) : reports[i].threat_level \in levels }

\* C14: in every report returned, each of critical_count, high_count,
\* medium_count and low_count is the number of vulnerability reports at that
\* level, their sum is the number of reports at one of the four levels, and
\* info-level reports are in none of the four counts.
C14_CountsCoverFourTiersOnly ==
    response # <<>>
        => LET r == response[1]
               reports == r.vulnerability_reports
           IN  /\ r.critical_count = Cardinality(ReportsAt(reports, {"critical"}))
               /\ r.high_count = Cardinality(ReportsAt(reports, {"high"}))
               /\ r.medium_count = Cardinality(ReportsAt(reports, {"medium"}))
               /\ r.low_count = Cardinality(ReportsAt(reports, {"low"}))
               /\ r.critical_count + r.high_count + r.medium_count + r.low_count
                     = Cardinality(ReportsAt(reports, FourTiers))
               /\ r.critical_count + r.high_count + r.medium_count + r.low_count
                     = Len(reports) - Cardinality(ReportsAt(reports, {"info"}))

\* a completed run whose report holds an info-level report and a counted one
C14_Witness ==
    /\ hist.exit_path = "completed"
    /\ response # <<>>
    /\ ReportsAt(response[1].vulnerability_reports, {"info"}) # {}
    /\ ReportsAt(response[1].vulnerability_reports, FourTiers) # {}

\* C15: the report of a run that completed every stage counts the extracted
\* dependencies, holds exactly one vulnerability report per matched pair, in the
\* order of the pairs, counts those reports and the real threats among them, and
\* has no errors.
C15_CompletedReportCounts ==
    hist.exit_path = "completed"
        => LET r == response[1]
               reports == r.vulnerability_reports
           IN  /\ r.dependencies = dependencies
               /\ r.dependencies_analyzed = Len(r.dependencies)
               /\ r.vulnerabilities_found = Len(reports)
               /\ Len(reports) = Len(all_vulnerabilities)
               /\ \A i \in 1..Len(reports) :
                      /\ reports[i].vulnerability = all_vulnerabilities[i].vuln.id
                      /\ reports[i].dependency = all_vulnerabilities[i].dep.name
                      /\ reports[i].dependency_version = all_vulnerabilities[i].dep.version
               /\ r.real_threats
                     = Cardinality({ i \in 1..Len(reports) : reports[i].is_real_threat })
               /\ r.errors = <<>>

\* a completed run with two matched pairs, one real threat and one not
C15_Witness ==
    /\ hist.exit_path = "completed"
    /\ Len(all_vulnerabilities) = 2
    /\ response[1].real_threats = 1

\* C16 as stated: within a run the usage detector is called at most once per
\* dependency name.
C16_UsageOncePerDistinctName ==
    \A i, j \in 1..Len(hist.usage_calls) :
        hist.usage_calls[i] = hist.usage_calls[j] => i = j

\* C17: no run fails in the triage stage; every report built so far belongs to
\* its matched pair, a report built from the fallback carries the fallback's
\* verdict for that pair, and a completed run has one report per pair and an
\* empty errors list.
C17_TriageFailuresStayLocal ==
    /\ hist.failed_at # "triage"
    /\ Len(vulnerability_reports) <= Len(all_vulnerabilities)
    /\ \A i \in 1..Len(vulnerability_reports) :
          LET rep == vulnerability_reports[i]
              pair == all_vulnerabilities[i]
          IN  /\ rep.vulnerability = pair.vuln.id
              /\ rep.dependency = pair.dep.name
              /\ rep.evidence.triage_reasoning = FallbackReasoning
                    => /\ rep.is_real_threat
                            = FallbackIsRealThreat(pair.dep,
                                                   UsageGet(dependency_usage, pair.dep.name))
                       /\ rep.triage_confidence = FallbackConfidence
    /\ hist.exit_path = "completed"
          => /\ Len(response[1].vulnerability_reports) = Len(all_vulnerabilities)
             /\ response[1].errors = <<>>

\* a completed run all of whose reports, at least two, come from the fallback
C17_Witness ==
    /\ hist.exit_path = "completed"
    /\ Len(response[1].vulnerability_reports) >= 2
    /\ \A i \in 1..Len(response[1].vulnerability_reports) :
          response[1].vulnerability_reports[i].evidence.triage_reasoning = FallbackReasoning

\* C19 as stated: a report made for a request with include_transitive = false
\* lists no transitive dependency and has no report about one.
C19_NoTransitiveWhenExcluded ==
    (response # <<>> /\ ~request.include_transitive)
        => /\ \A i \in 1..Len(response[1].dependencies) :
                 response[1].dependencies[i].is_direct
           /\ \A i \in 1..Len(response[1].vulnerability_reports) :
                 response[1].vulnerability_reports[i].evidence.is_direct_dependency

----------------------------------------------------------------------------
(* AnalysisEngine._analyze_vulnerabilities on its own *)

InitMatch ==
    /\ IdleEngine
    /\ IdleTriage
    /\ IdleExtract
    /\ IdleRuns
    /\ IdleUsage
    /\ \E deps \in DepLists, db \in SUBSET Advisories : m_in = <<[deps |-> deps, db |-> db]>>
    /\ m_out = <<>>

MatchCall ==
    /\ m_in # <<>>
    /\ m_out = <<>>
    /\ m_out' = <<_analyze_vulnerabilities(m_in[1].deps, m_in[1].db)>>
    /\ UNCHANGED <<engineVars, triageVars, extractVars, u_in, u_out, runs, m_in>>

SpecMatch == InitMatch /\ [][MatchCall]_vars

\* C20 as stated: for every dependency whose version does not parse and every
\* advisory the database returns for its package name, the matcher's output
\* holds the pair of that advisory and that dependency.
C20_UnparsableVersionAlwaysMatched ==
    m_out # <<>>
        => LET deps == m_in[1].deps
               batch == get_vulnerabilities_batch(deps, m_in[1].db)
           IN  \A i \in 1..Len(deps), b \in 1..Len(batch) :
                   (batch[b].name = deps[i].name /\ ParseVersion(deps[i].version) = -1)
                       => \A k \in 1..Len(batch[b].vulns) :
                              \E p \in 1..Len(m_out[1]) :
                                  m_out[1][p] = [vuln |-> batch[b].vulns[k], dep |-> deps[i]]

----------------------------------------------------------------------------
(* Several analyze_repository calls on one AnalysisEngine, interleaved at
   their awaits: the clone, the advisory query and each triage call. The
   calls share the engine's RepositoryService, that is temp_dir, and the
   file system; rmtree is taken to succeed. *)

MaxRuns == 2

RunIds == 1..MaxRuns

\* the directory mkdtemp makes for a call
RunDir(r) == <<"minotaur_1", "minotaur_2", "minotaur_3", "minotaur_4">>[r]

\* a call: where it stands, whether it made its directory, the pairs it has to
\* triage and has triaged, how it ended, the await (or the start) at which it
\* failed, and which call deleted its directory
NewRun ==
    [pc |-> "start", made |-> FALSE, pairs |-> 0, triaged |-> 0, exit |-> "none",
     failed_at |-> "none", deleted_by |-> 0]

runsIdleVars == <<request, checkout, pc, dependencies, dep_i, dependency_usage,
                  all_vulnerabilities, vulnerability_reports, errors, response, hist>>

InitRuns ==
    /\ IdleEngine
    /\ IdleTriage
    /\ IdleExtract
    /\ IdleMatch
    /\ IdleUsage
    /\ runs = [r \in RunIds |-> NewRun]

\* call r reaches repository_service.cleanup() on its way out, from Step 8 or
\* from the except handler (after clone_repository's own cleanup(), if any, a
\* second cleanup() finds temp_dir None)
RunReleases(r, exit) ==
    LET cleaned == cleanup(temp_dir, fs, TRUE)
    IN  /\ temp_dir' = cleaned.temp_dir
        /\ fs' = cleaned.fs
        /\ runs' = [q \in RunIds |->
                       LET mine == IF q = r
                                   THEN [runs[q] EXCEPT
                                            !.pc = "done", !.exit = exit,
                                            !.failed_at = IF exit = "failed"
                                                          THEN runs[q].pc ELSE @]
                                   ELSE runs[q]
                       IN  IF RunDir(q) \in fs \ cleaned.fs
                           THEN [mine EXCEPT !.deleted_by = r]
                           ELSE mine]

\* up to the await of the clone: URL check, mkdtemp, self.temp_dir = ...
RunStart(r) ==
    /\ runs[r].pc = "start"
    /\ \E url \in RepoUrls :
          IF _is_valid_github_url(url)
          THEN /\ temp_dir' = RunDir(r)
               /\ fs' = fs \cup {RunDir(r)}
               /\ runs' = [runs EXCEPT ![r].pc = "cloning", ![r].made = TRUE]
          ELSE RunReleases(r, "failed")
    /\ UNCHANGED <<runsIdleVars, triageVars, extractVars, matchVars, u_in, u_out>>

\* from the end of the clone to the await of the advisory query: extraction
\* (nothing is found in a directory that is gone), the early return, the
\* usage loop
RunCloneDone(r) ==
    /\ runs[r].pc = "cloning"
    /\ \E clone_outcome \in CloneOutcomes, found \in BOOLEAN :
          IF clone_outcome # "ok" THEN RunReleases(r, "failed")
          ELSE IF found /\ RunDir(r) \in fs
          THEN /\ runs' = [runs EXCEPT ![r].pc = "querying"]
               /\ UNCHANGED <<temp_dir, fs>>
          ELSE /\ runs' = [runs EXCEPT ![r].pc = "done", ![r].exit = "empty"]
               /\ UNCHANGED <<temp_dir, fs>>
    /\ UNCHANGED <<runsIdleVars, triageVars, extractVars, matchVars, u_in, u_out>>

\* from the end of the query to the await of the first triage call, or to the
\* end when no pair matched
RunQueryDone(r) ==
    /\ runs[r].pc = "querying"
    /\ \E ok \in BOOLEAN, pairs \in 0..MaxDeps :
          IF ~ok THEN RunReleases(r, "failed")
          ELSE IF pairs = 0 THEN RunReleases(r, "completed")
          ELSE /\ runs' = [runs EXCEPT ![r].pc = "triaging", ![r].pairs = pairs]
               /\ UNCHANGED <<temp_dir, fs>>
    /\ UNCHANGED <<runsIdleVars, triageVars, extractVars, matchVars, u_in, u_out>>

\* from the end of one triage call to the await of the next, or to the end
RunTriageDone(r) ==
    /\ runs[r].pc = "triaging"
    /\ IF runs[r].triaged + 1 = runs[r].pairs
       THEN LET cleaned == cleanup(temp_dir, fs, TRUE)
                after == [runs EXCEPT ![r].triaged = @ + 1, ![r].pc = "done",
                                      ![r].exit = "completed"]
            IN  /\ temp_dir' = cleaned.temp_dir
                /\ fs' = cleaned.fs
                /\ runs' = [q \in RunIds |->
                               IF RunDir(q) \in fs \ cleaned.fs
                               THEN [after[q] EXCEPT !.deleted_by = r]
                               ELSE after[q]]
       ELSE /\ runs' = [runs EXCEPT ![r].triaged = @ + 1]
            /\ UNCHANGED <<temp_dir, fs>>
    /\ UNCHANGED <<runsIdleVars, triageVars, extractVars, matchVars, u_in, u_out>>

NextRuns ==
    \E r \in RunIds :
        \/ RunStart(r)
        \/ RunCloneDone(r)
        \/ RunQueryDone(r)
        \/ RunTriageDone(r)

SpecRuns == InitRuns /\ [][NextRuns]_vars

\* C18 as stated: with calls interleaved on one engine, no call's checkout is
\* deleted by another call, a call that is still working has its checkout, and
\* a call that went out through cleanup() has deleted its own checkout.
C18_RunsShareNoCheckoutState ==
    \A r \in RunIds :
        /\ runs[r].deleted_by \in {0, r}
        /\ runs[r].pc \in {"cloning", "querying", "triaging"} => RunDir(r) \in fs
        /\ (runs[r].made /\ runs[r].exit \in {"failed", "completed"}) => RunDir(r) \notin fs

----------------------------------------------------------------------------
(* Further properties of matching and of extraction *)

\* C21 as stated: every dependency instance is tested against every advisory
\* returned for its name, and the output holds the pair of every instance the
\* advisory affects, whichever its place among the entries of that name.
C21_EveryInstanceMatched ==
    m_out # <<>>
        => LET deps == m_in[1].deps
               batch == get_vulnerabilities_batch(deps, m_in[1].db)
           IN  \A i \in 1..Len(deps), b \in 1..Len(batch) :
                   batch[b].name = deps[i].name
                       => \A k \in 1..Len(batch[b].vulns) :
                              is_vulnerability_affecting_version(batch[b].vulns[k], deps[i])
                                  => \E p \in 1..Len(m_out[1]) :
                                         m_out[1][p] = [vuln |-> batch[b].vulns[k],
                                                        dep |-> deps[i]]

\* the pinned entries of a lock structure, each with its nearest enclosing
\* package, at any depth
RECURSIVE LockEntries(_, _)
LockEntries(nodes, parent) ==
    IF nodes = <<>> THEN {}
    ELSE (IF Head(nodes).version # NoneValue
          THEN {[name |-> Head(nodes).name, version |-> Head(nodes).version,
                 parent |-> parent]}
               \cup LockEntries(Head(nodes).deps, Head(nodes).name)
          ELSE {})
         \cup LockEntries(Tail(nodes), parent)

\* C22 as stated: every pinned lock entry, at any depth, whose name the manifest
\* does not declare is in the uncapped list as a transitive npm entry with the
\* entry's version and its nearest enclosing package as parent.
C22_EveryLockOnlyNodeListed ==
    (x_out # <<>> /\ x_out[1].exc = NoneValue
        /\ x_in[1].tree.package_json.state = "ok" /\ x_in[1].tree.package_lock.state = "ok")
        => LET data == x_in[1].tree.package_json.data
               declared == { data.dependencies[i].key : i \in 1..Len(data.dependencies) }
                              \cup { data.devDependencies[i].key :
                                        i \in 1..Len(data.devDependencies) }
               u == Untruncated(x_in[1].tree)
           IN  \A e \in LockEntries(x_in[1].tree.package_lock.data.dependencies, NoneValue) :
                   e.name \notin declared
                       => \E i \in 1..Len(u) :
                              /\ u[i].dependency_type = "npm"
                              /\ ~u[i].is_direct
                              /\ u[i].name = e.name
                              /\ u[i].version = e.version
                              /\ u[i].parent = e.parent

\* payloads that are complete, valid result objects
WellFormedPayloads == {"P_crit", "P_high", "P_med", "P_low", "P_info"}

\* C23 as stated: when the completion text holds a well-formed result object
\* followed by text with braces in it, triage_vulnerability returns from the
\* primary path with the threat level of that first object.
C23_FirstBalancedObjectWins ==
    \A i \in 1..Len(t_out) :
        \A pre \in TextPrefixes, p \in WellFormedPayloads, post \in TextSuffixes :
            (/\ t_out[i].llm.kind = "text"
             /\ t_out[i].llm.text = pre \o <<"{", p, "}">> \o post
             /\ \E k \in 1..Len(post) : post[k] \in {"{", "}"})
                => /\ t_out[i].out.exc = "none"
                   /\ t_out[i].out.path = "primary"
                   /\ t_out[i].out.val.threat_level = PayloadOf(p).threat_level

\* what each requirement line of the exercise is to yield: the entries it
\* contributes (none for a blank line, a comment or an empty name), name and
\* version split at the first operator in precedence order
ExpectedRequirement(line) ==
    CASE line = <<"a", "=", "=", "1.0">> -> <<[name |-> "a", version |-> "1.0"]>>
      [] line = <<"a", ">", "=", "1.0", ",", "<", "2.0">> ->
            <<[name |-> "a", version |-> "1.0,<2.0"]>>
      [] line = <<" ", "b", "~", "=", "1.0", " ", "#", "x", "=", "=", "9">> ->
            <<[name |-> "b", version |-> "1.0"]>>
      [] line = <<"b", "=", "1">> -> <<[name |-> "b", version |-> "1"]>>
      [] line = <<"b">> -> <<[name |-> "b", version |-> "*"]>>
      [] line = <<"a", "<", "2">> -> <<[name |-> "a<2", version |-> "*"]>>
      [] line = <<"a", "!", "=", "1", ",", ">", "=", "2">> ->
            <<[name |-> "a!=1,", version |-> "2"]>>
      [] line = <<"b", " ", "<", "=", " ", "2">> -> <<[name |-> "b", version |-> "2"]>>
      [] OTHER -> <<>>

RECURSIVE ExpectedRequirements(_)
ExpectedRequirements(lines) ==
    IF lines = <<>> THEN <<>>
    ELSE ExpectedRequirement(Head(lines)) \o ExpectedRequirements(Tail(lines))

\* the name and version of the requirements.txt entries of a list, in order
RECURSIVE RequirementEntries(_)
RequirementEntries(deps) ==
    IF deps = <<>> THEN <<>>
    ELSE (IF Head(deps).metadata.source = "requirements.txt"
          THEN <<[name |-> Head(deps).name, version |-> Head(deps).version]>>
          ELSE <<>>)
         \o RequirementEntries(Tail(deps))

\* C24: the requirements.txt entries of an extraction are, line by line, the
\* name before and the version after the first operator found in the order
\* ==, >=, <=, !=, ~=, =, with the comment removed first and the whole line and
\* "*" when there is no operator; all of them when the cap cut nothing.
C24_RequirementLineSplit ==
    (x_out # <<>> /\ x_out[1].exc = NoneValue /\ x_in[1].tree.requirements_txt.state = "ok")
        => LET got == RequirementEntries(x_out[1].deps)
               want == ExpectedRequirements(x_in[1].tree.requirements_txt.data)
           IN  /\ IsPrefix(got, want)
               /\ Len(x_out[1].deps) < x_in[1].cap => got = want

\* an uncut extraction of a line holding both != and >= and of a commented line
C24_Witness ==
    /\ x_out # <<>>
    /\ x_out[1].exc = NoneValue
    /\ x_in[1].tree.requirements_txt.state = "ok"
    /\ x_in[1].tree.requirements_txt.data
          = << <<"a", "!", "=", "1", ",", ">", "=", "2">>,
               <<" ", "b", "~", "=", "1.0", " ", "#", "x", "=", "=", "9">> >>
    /\ Len(x_out[1].deps) < x_in[1].cap
    /\ RequirementEntries(x_out[1].deps)
          = <<[name |-> "a!=1,", version |-> "2"], [name |-> "b", version |-> "1.0"]>>

\* C30 as stated: an extraction returns at most one entry per ecosystem and name.
C30_OneEntryPerEcosystemAndName ==
    (x_out # <<>> /\ x_out[1].exc = NoneValue)
        => \A i, j \in 1..Len(x_out[1].deps) :
               (/\ x_out[1].deps[i].dependency_type = x_out[1].deps[j].dependency_type
                /\ x_out[1].deps[i].name = x_out[1].deps[j].name)
                   => i = j

----------------------------------------------------------------------------
(* Further properties of the run *)

\* C25: the stages of a run come in order. The advisory query is issued only
\* after the extraction and after the usage flag of every extracted dependency
\* was computed; a triage call begins only after the query, with every
\* dependency name in the usage lookup; once a triage call was made the lookup
\* no longer changes; and the run ends from the triage stage or by a failure.
C25_StageOrder ==
    [][ /\ hist'.vuln_queries > hist.vuln_queries
           => /\ hist.extracted
              /\ Len(hist.usage_calls) = Len(dependencies)
              /\ hist.triage_calls = 0
        /\ hist'.triage_calls > hist.triage_calls
           => /\ hist.vuln_queries = 1
              /\ Len(hist.usage_calls) = Len(dependencies)
              /\ \A i \in 1..Len(dependencies) :
                    dependencies[i].name \in DOMAIN dependency_usage
        /\ Len(hist'.usage_calls) > Len(hist.usage_calls)
           => hist.extracted /\ hist.vuln_queries = 0
        /\ hist.triage_calls > 0 => dependency_usage' = dependency_usage
        /\ hist'.exit_path = "completed" /\ hist.exit_path # "completed"
           => /\ hist.vuln_queries = 1
              /\ hist.triage_calls = Len(all_vulnerabilities)
              /\ temp_dir' = NoneValue
      ]_vars

\* a completed run over two dependencies with a triage call
C25_Witness ==
    /\ hist.exit_path = "completed"
    /\ Len(dependencies) = 2
    /\ Len(hist.usage_calls) = 2
    /\ hist.triage_calls >= 1

\* the orderings of n things
Orderings(n) == { f \in [1..n -> 1..n] : \A i, j \in 1..n : f[i] = f[j] => i = j }

Reordered(reports, f) == [i \in 1..Len(reports) |-> reports[f[i]]]

\* C26: the real-threat count and the four level counts of a completed run's
\* report are those of every reordering of its vulnerability reports.
C26_AggregationOrderIndependent ==
    hist.exit_path = "completed"
        => \A f \in Orderings(Len(vulnerability_reports)) :
               LET other == CompletedResponse(request, dependencies,
                                              Reordered(vulnerability_reports, f), errors)
               IN  /\ other.real_threats = response[1].real_threats
                   /\ other.critical_count = response[1].critical_count
                   /\ other.high_count = response[1].high_count
                   /\ other.medium_count = response[1].medium_count
                   /\ other.low_count = response[1].low_count

\* a completed run whose reports differ in level and in verdict
C26_Witness ==
    /\ hist.exit_path = "completed"
    /\ \E i, j \in 1..Len(vulnerability_reports) :
          /\ vulnerability_reports[i].threat_level # vulnerability_reports[j].threat_level
          /\ vulnerability_reports[i].is_real_threat
          /\ ~vulnerability_reports[j].is_real_threat

\* C28 as stated: when a call returns its report after its clone failed, the
\* directory it had made no longer exists; and a call whose URL is rejected
\* has made no directory.
C28_FailedAcquisitionReleased ==
    \A r \in RunIds :
        /\ (runs[r].exit = "failed" /\ runs[r].failed_at = "cloning")
              => RunDir(r) \notin fs
        /\ (runs[r].exit = "failed" /\ runs[r].failed_at = "start")
              => ~runs[r].made

\* C29 as stated: the usage flag in the evidence of every report is the result
\* the detector gave for the pair's own dependency, and the lookup holds the
\* name of every pair's dependency.
C29_UsageFlagOfOwnDependency ==
    \A i \in 1..Len(vulnerability_reports) :
        LET dep == all_vulnerabilities[i].dep
        IN  /\ dep.name \in DOMAIN dependency_usage
            /\ \A k \in 1..Len(dependencies) :
                   (dependencies[k] = dep /\ k <= Len(hist.usage_results))
                       => vulnerability_reports[i].evidence.is_dependency_used
                             = hist.usage_results[k]

----------------------------------------------------------------------------
(* Usage detection: DependencyService.is_dependency_used. A file's content
   is a sequence of lexemes; package names are single letters, so that "ab"
   is a name that begins with the name "a". *)

MaxFiles == 2

\* re.IGNORECASE: the lower-case form of a lexeme
Fold(t) ==
    CASE t = "IMPORT" -> "import"
      [] t = "FROM" -> "from"
      [] t = "A" -> "a"
      [] t = "B" -> "b"
      [] OTHER -> t

\* the elements of the import patterns: a literal, or one of the kinds "quote"
\* (the class ['\"]) and "any" (.*)
Lit(t) == [kind |-> "lit", t |-> t]

\* whether the pattern matches the content from position i on (re.match at i,
\* with re.IGNORECASE and without re.DOTALL: .* stays on the line)
RECURSIVE MatchAt(_, _, _)
MatchAt(pattern, content, i) ==
    IF pattern = <<>> THEN TRUE
    ELSE LET e == Head(pattern)
         IN  CASE e.kind = "any" ->
                    \E j \in i..(Len(content) + 1) :
                        /\ \A k \in i..(j - 1) : content[k] # "\n"
                        /\ MatchAt(Tail(pattern), content, j)
               [] e.kind = "quote" ->
                    /\ i <= Len(content)
                    /\ content[i] \in {"'", "\""}
                    /\ MatchAt(Tail(pattern), content, i + 1)
               [] OTHER ->
                    /\ i <= Len(content)
                    /\ Fold(content[i]) = Fold(e.t)
                    /\ MatchAt(Tail(pattern), content, i + 1)

NpmExtensions_NoTsx == {".js", ".jsx", ".ts"}

NpmExtensions == {".js", ".jsx", ".ts", ".tsx"}

\* the inner loop of _search_patterns_in_files for one pattern, over the
\* paths rglob yields: "found", "none", or the exception that leaves the loop;
\* re.search finds a match from some position on, and `except
\* (UnicodeDecodeError, IOError)` catches both ways a read fails here
RECURSIVE SearchFiles(_, _, _)
SearchFiles(pattern, files, extensions) ==
    IF files = <<>> THEN "none"
    ELSE LET file_path == Head(files)
         IN  IF file_path.is_file /\ file_path.suffix \in extensions
             THEN CASE file_path.read = "ok" ->
                         IF \E i \in 1..(Len(file_path.content) + 1) :
                               MatchAt(pattern, file_path.content, i)
                         THEN "found"
                         ELSE SearchFiles(pattern, Tail(files), extensions)
                    [] file_path.read \in {"UnicodeDecodeError", "PermissionError"} ->
                         SearchFiles(pattern, Tail(files), extensions)
                    [] OTHER -> file_path.read
             ELSE SearchFiles(pattern, Tail(files), extensions)

RECURSIVE _search_patterns_in_files(_, _, _)
_search_patterns_in_files(files, patterns, extensions) ==
    IF patterns = <<>> THEN [exc |-> NoneValue, val |-> FALSE]
    ELSE LET found == SearchFiles(Head(patterns), files, extensions)
         IN  CASE found = "found" -> [exc |-> NoneValue, val |-> TRUE]
               [] found = "none" ->
                    _search_patterns_in_files(files, Tail(patterns), extensions)
               [] OTHER -> [exc |-> found, val |-> FALSE]

_is_npm_dependency_used(dependency, files) ==
    LET name == Lit(dependency.name)
        quote == [kind |-> "quote", t |-> ""]
        import_patterns ==
            << <<Lit("import"), [kind |-> "any", t |-> ""], quote, name, quote>>,
               <<Lit("require"), Lit("("), quote, name, quote, Lit(")")>>,
               <<Lit("from"), Lit(" "), quote, name, quote>> >>
    IN  _search_patterns_in_files(files, import_patterns, NpmExtensions)

_is_python_dependency_used(dependency, files) ==
    LET name == Lit(dependency.name)
        import_patterns ==
            << <<Lit("import"), Lit(" "), name>>,
               <<Lit("from"), Lit(" "), name, Lit(" "), Lit("import")>>,
               <<Lit("import"), Lit(" "), name, Lit(" "), Lit("as")>> >>
    IN  _search_patterns_in_files(files, import_patterns, {".py"})

is_dependency_used(dependency, files) ==
    CASE dependency.dependency_type = "npm" -> _is_npm_dependency_used(dependency, files)
      [] dependency.dependency_type = "python" ->
            _is_python_dependency_used(dependency, files)
      [] OTHER -> [exc |-> NoneValue, val |-> TRUE]

\* a path of the checkout: its suffix, whether is_file() holds, what reading
\* it as UTF-8 does, and the content read
RepoFile(path, suffix, is_file, read, content) ==
    [path |-> path, suffix |-> suffix, is_file |-> is_file, read |-> read,
     content |-> content]

UsageFiles ==
    { RepoFile("app.js", ".js", TRUE, "ok", <<"import", " ", "'", "a", "'">>),
      RepoFile("lib.jsx", ".jsx", TRUE, "ok", <<"require", "(", "\"", "b", "\"", ")">>),
      RepoFile("mod.ts", ".ts", TRUE, "ok", <<"from", " ", "'", "a", "b", "'">>),
      RepoFile("view.tsx", ".tsx", TRUE, "ok", <<"IMPORT", " ", "x", " ", "FROM", " ", "\"", "A", "\"">>),
      RepoFile("split.js", ".js", TRUE, "ok", <<"import", "\n", "'", "b", "'">>),
      RepoFile("UP.JS", ".JS", TRUE, "ok", <<"import", " ", "'", "b", "'">>),
      RepoFile("locked.js", ".js", TRUE, "PermissionError", <<"import", " ", "'", "b", "'">>),
      RepoFile("pkg.js", ".js", FALSE, "ok", <<>>),
      RepoFile("main.py", ".py", TRUE, "ok", <<"import", " ", "a", "b">>),
      RepoFile("tool.py", ".py", TRUE, "ok", <<"x", "\n", "FROM", " ", "B", " ", "import", " ", "x">>),
      RepoFile("bad.py", ".py", TRUE, "UnicodeDecodeError", <<"import", " ", "b">>),
      RepoFile("empty.py", ".py", TRUE, "ok", <<>>),
      RepoFile("notes.txt", ".txt", TRUE, "ok", <<"import", " ", "b">>) }

InitUsage ==
    /\ IdleEngine
    /\ IdleTriage
    /\ IdleExtract
    /\ IdleMatch
    /\ IdleRuns
    /\ \E dependency \in DepUniverse, files \in SeqsUpTo(UsageFiles, MaxFiles) :
          u_in = <<[dependency |-> dependency, files |-> files]>>
    /\ u_out = <<>>

UsageCall ==
    /\ u_in # <<>>
    /\ u_out = <<>>
    /\ u_out' = <<is_dependency_used(u_in[1].dependency, u_in[1].files)>>
    /\ UNCHANGED <<engineVars, triageVars, extractVars, matchVars, runs, u_in>>

SpecUsage == InitUsage /\ [][UsageCall]_vars

\* the names that one of the ecosystem's import patterns finds in the content
\* of the path, upper and lower case alike
ImportedNames(path, ecosystem) ==
    CASE path = "app.js" /\ ecosystem = "npm" -> {"a"}
      [] path = "lib.jsx" /\ ecosystem = "npm" -> {"b"}
      [] path = "view.tsx" /\ ecosystem = "npm" -> {"a"}
      [] path = "UP.JS" /\ ecosystem = "npm" -> {"b"}
      [] path = "locked.js" /\ ecosystem = "npm" -> {"b"}
      [] path = "main.py" /\ ecosystem = "python" -> {"a"}
      [] path = "tool.py" /\ ecosystem = "python" -> {"b"}
      [] path = "bad.py" /\ ecosystem = "python" -> {"b"}
      [] path = "notes.txt" /\ ecosystem = "python" -> {"b"}
      [] OTHER -> {}

EcosystemExtensions(ecosystem) ==
    IF ecosystem = "npm" THEN {".js", ".jsx", ".ts", ".tsx"} ELSE {".py"}

\* C27: is_dependency_used never fails, and it returns true exactly when a
\* readable regular file with an extension of the dependency's ecosystem holds
\* a match of one of the ecosystem's import patterns for the dependency's name.
C27_UsedIffPatternInReadableFile ==
    u_out # <<>>
        => LET dep == u_in[1].dependency
               files == u_in[1].files
           IN  /\ u_out[1].exc = NoneValue
               /\ u_out[1].val
                     <=> \E k \in 1..Len(files) :
                            /\ files[k].is_file
                            /\ files[k].suffix \in EcosystemExtensions(dep.dependency_type)
                            /\ files[k].read = "ok"
                            /\ dep.name \in ImportedNames(files[k].path,
                                                          dep.dependency_type)

\* an unreadable file is skipped and a later .tsx file gives the match
C27_Witness ==
    /\ u_out # <<>>
    /\ u_out[1].val
    /\ u_in[1].dependency.dependency_type = "npm"
    /\ Len(u_in[1].files) = 2
    /\ u_in[1].files[1].read = "PermissionError"
    /\ u_in[1].files[2].suffix = ".tsx"

====
